---- MODULE Spec2Model ----
(***************************************************************************)
(* Smart parking system (src/src/App.js): slot normalisation, vehicle      *)
(* classification, slot allocation, path generation and path scoring, and  *)
(* the session (the component's state, its handlers and its asynchronous   *)
(* detection calls).                                                       *)
(*                                                                         *)
(* Conventions.                                                            *)
(*  - A JavaScript string that the code inspects character by character    *)
(*    (a class label, the text typed in an intensity field) is a sequence  *)
(*    of one-character strings; a message that is only stored is a string. *)
(*  - null is the record Null.                                             *)
(*  - distance_from_entrance holds the SQUARE of the value the code        *)
(*    stores: the code stores Math.sqrt(dx*dx + dy*dy) and only ever       *)
(*    compares two such values with < and >; Math.sqrt is strictly         *)
(*    increasing on the integers dx*dx + dy*dy of the model, so every      *)
(*    comparison has the same outcome on the squares.                      *)
(*  - an outcome of Math.random(), a path's distance and a score are      *)
(*    JavaScript numbers, IEEE 754 doubles: the non-negative double v is   *)
(*    kept as the natural number v * 2^60, written in base 2^13 with the   *)
(*    least significant digit first and no leading zero digit (TLC's       *)
(*    integers have 32 bits).  Products and sums are rounded to 53         *)
(*    significant bits, ties to even, as the products and sums of the code *)
(*    are; the numbers of the model are multiples of 2^-60 below 1024.     *)
(*    tJunctions and intensities, which the code only ever has as          *)
(*    integers, are integers.                                              *)
(***************************************************************************)
EXTENDS Integers, Sequences, FiniteSets, TLC

VARIABLES
    currentStep,            \* useState(1)
    parkingImage,           \* useState(null)
    vehicleImage,           \* useState(null)
    detectedSlots,          \* useState([])
    detectedVehicleType,    \* useState(null)
    allocatedSlot,          \* useState(null)
    pathsData,              \* useState([])
    pathVehicleIntensities, \* useState({})
    optimalPath,            \* useState(null)
    isProcessing,           \* useState(false)
    error,                  \* useState('')
    detectionImage,         \* useState(null)
    apiKey,                 \* useState(''): TRUE when the key is non-empty
    reading,                \* FileReader loads started and not yet delivered: their number per kind
    pending,                \* asynchronous handlers suspended at an await
    fin,                    \* input of the function under study (function specifications)
    fout                    \* its result

sessionVars == <<currentStep, parkingImage, vehicleImage, detectedSlots,
                 detectedVehicleType, allocatedSlot, pathsData,
                 pathVehicleIntensities, optimalPath, isProcessing, error,
                 detectionImage, apiKey, reading, pending>>

vars == <<currentStep, parkingImage, vehicleImage, detectedSlots,
          detectedVehicleType, allocatedSlot, pathsData,
          pathVehicleIntensities, optimalPath, isProcessing, error,
          detectionImage, apiKey, reading, pending, fin, fout>>

Null == [null |-> TRUE]

Abs(n) == IF n < 0 THEN -n ELSE n

(***************************************************************************)
(* Strings as character sequences.                                         *)
(***************************************************************************)
UpperChars == <<"A","B","C","D","E","F","G","H","I","J","K","L","M",
                "N","O","P","Q","R","S","T","U","V","W","X","Y","Z">>

LowerChars == <<"a","b","c","d","e","f","g","h","i","j","k","l","m",
                "n","o","p","q","r","s","t","u","v","w","x","y","z">>

\* String.prototype.toLowerCase on one character
lowerCaseOf ==
    [c \in {UpperChars[i] : i \in 1..26} |->
        LowerChars[CHOOSE i \in 1..26 : UpperChars[i] = c]]

toLowerCaseChar(c) ==
    IF c \in DOMAIN lowerCaseOf THEN lowerCaseOf[c] ELSE c

\* String.prototype.toLowerCase
toLowerCase(s) == [i \in 1..Len(s) |-> toLowerCaseChar(s[i])]

\* String.prototype.includes
includes(s, sub) ==
    \E i \in 0..(Len(s) - Len(sub)) : SubSeq(s, i + 1, i + Len(sub)) = sub

(***************************************************************************)
(* Slot normalisation.                                                     *)
(***************************************************************************)
\* emptyClasses of isEmptySlot: 'empty', 'parking spot', 'available', 'free'
emptyClasses ==
    << <<"e","m","p","t","y">>,
       <<"p","a","r","k","i","n","g"," ","s","p","o","t">>,
       <<"a","v","a","i","l","a","b","l","e">>,
       <<"f","r","e","e">> >>

isEmptySlot(className) ==
    \E k \in 1..Len(emptyClasses) :
        includes(toLowerCase(className), toLowerCase(emptyClasses[k]))

\* the comparator handed to Array.prototype.sort by sortSlotsSpatiallly
RowThreshold == 50

\* a comparator without the row threshold
compareByYOnly(a, b) == a.y - b.y

spatialCompare(a, b) ==
    IF Abs(a.y - b.y) < RowThreshold THEN a.x - b.x ELSE a.y - b.y

\* Array.prototype.sort(comparefn).  The order it leaves is the same in
\* every engine when comparefn is a consistent comparison function (the sort
\* is stable); for a batch on which spatialCompare is not transitive the
\* order is the engine's.  This is the sort of the engine that runs the
\* program (V8, TimSort).  The array is cut into runs from the front: the
\* run that starts the rest of the array is counted and, when it strictly
\* descends, reversed; a run shorter than the minimal run length is extended
\* to it, the added elements being inserted one by one at the place a binary
\* search over the run gives.  The runs wait in a stack (pendingRuns) whose
\* neighbours are merged while the lengths in the stack do not decrease
\* fast enough, and are all merged at the end.  An array of fewer than 64
\* elements is a single run and nothing is merged.  The merge of two runs
\* takes elements one by one until one run has won minGallop times in a
\* row, and from then on whole stretches that a galloping search finds;
\* minGallop is kept from one merge to the next.

\* arrays shorter than this are sorted as one run
MinMerge == 64

\* a run leaves galloping when a search finds fewer elements than this
kMinGallopWins == 7

Min(m, n) == IF m < n THEN m ELSE n

\* ComputeMinRunLength: the 6 most significant bits of n, plus 1 when one
\* of the other bits is set
RECURSIVE computeMinRunLength(_, _)
computeMinRunLength(n, r) ==
    IF n >= MinMerge
    THEN computeMinRunLength(n \div 2, IF n % 2 = 1 THEN 1 ELSE r)
    ELSE n + r

\* a start of the run that counts a level pair as descending
countRunDescendingOrLevel(a) == spatialCompare(a[2], a[1]) <= 0

\* the run at the start of a descends: comparefn(a[1], a[0]) < 0
countRunDescending(a) == spatialCompare(a[2], a[1]) < 0

\* the length of the run at the start of a: the loop over idx stops at the
\* first element, from the third on, that is not below its predecessor
\* (descending run) or is below it (ascending run)
countRunLength(a, descending) ==
    LET ends == {idx \in 3..Len(a) :
                    LET order == spatialCompare(a[idx], a[idx - 1])
                    IN (descending /\ order >= 0) \/ (~descending /\ order < 0)}
    IN IF ends = {} THEN Len(a)
       ELSE (CHOOSE idx \in ends : \A other \in ends : idx <= other) - 1

\* a with its first n elements in reverse order
reverseRange(a, n) ==
    [k \in 1..Len(a) |-> IF k <= n THEN a[n + 1 - k] ELSE a[k]]

\* CountAndMakeRun on the rest of the array: the length of the run at its
\* start, and the rest with that run ascending
countAndMakeRun(a) ==
    IF Len(a) < 2 THEN [length |-> Len(a), array |-> a]
    ELSE LET descending == countRunDescending(a)
             run == countRunLength(a, descending)
         IN [length |-> run,
             array |-> IF descending THEN reverseRange(a, run) ELSE a]

\* the place of pivot in the sorted part a[left..right-1]: behind every
\* element the search compares it with and does not find it below
RECURSIVE binarySearch(_, _, _, _)
binarySearch(a, pivot, left, right) ==
    IF left >= right THEN left
    ELSE LET mid == left + ((right - left) \div 2)
         IN IF spatialCompare(pivot, a[mid]) < 0
            THEN binarySearch(a, pivot, left, mid)
            ELSE binarySearch(a, pivot, mid + 1, right)

\* a[1..start-1] is sorted; the elements from start on are inserted
RECURSIVE binaryInsertionSort(_, _)
binaryInsertionSort(a, start) ==
    IF start > Len(a) THEN a
    ELSE LET pivot == a[start]
             left == binarySearch(a, pivot, 1, start)
         IN binaryInsertionSort(SubSeq(a, 1, left - 1) \o <<pivot>>
                                   \o SubSeq(a, left, start - 1)
                                   \o SubSeq(a, start + 1, Len(a)),
                                start + 1)

\* The galloping searches.  A run is a sequence; an offset k of the engine
\* (0-based) is the element a[k + 1], and the result of a search is the
\* number of elements of the run that lie before the key's place.
\* GallopLeft puts key before the elements it is level with and GallopRight
\* behind them.

\* the place of key is to the right of element: GallopLeft asks whether
\* element is below key (comparefn(element, key) < 0), GallopRight whether
\* key is not below element (comparefn(key, element) >= 0)
keyIsRightOf(element, key, rightmost) ==
    IF rightmost THEN spatialCompare(key, element) >= 0
    ELSE spatialCompare(element, key) < 0

\* offsets grow to the right of hint as long as key's place is to the
\* right of the element there; gives <<lastOfs + 1, offset>> from the
\* start of the run, the bounds of the binary search
RECURSIVE gallopRightward(_, _, _, _, _, _, _)
gallopRightward(a, key, hint, lastOfs, offset, maxOfs, rightmost) ==
    IF offset < maxOfs /\ keyIsRightOf(a[hint + offset + 1], key, rightmost)
    THEN gallopRightward(a, key, hint, offset, (offset * 2) + 1, maxOfs,
                         rightmost)
    ELSE <<lastOfs + hint + 1, Min(offset, maxOfs) + hint>>

\* offsets grow to the left of hint as long as key's place is not to the
\* right of the element there
RECURSIVE gallopLeftward(_, _, _, _, _, _, _)
gallopLeftward(a, key, hint, lastOfs, offset, maxOfs, rightmost) ==
    IF offset < maxOfs /\ ~keyIsRightOf(a[(hint - offset) + 1], key, rightmost)
    THEN gallopLeftward(a, key, hint, offset, (offset * 2) + 1, maxOfs,
                        rightmost)
    ELSE <<(hint - Min(offset, maxOfs)) + 1, hint - lastOfs>>

\* the binary search between found[1] (lastOfs) and found[2] (offset)
RECURSIVE gallopSearch(_, _, _, _)
gallopSearch(a, key, found, rightmost) ==
    IF found[1] >= found[2] THEN found[2]
    ELSE LET m == found[1] + ((found[2] - found[1]) \div 2)
         IN IF keyIsRightOf(a[m + 1], key, rightmost)
            THEN gallopSearch(a, key, <<m + 1, found[2]>>, rightmost)
            ELSE gallopSearch(a, key, <<found[1], m>>, rightmost)

\* GallopLeft(a, key, 0, Len(a), hint): the place of key in the run a,
\* before the elements the search does not find below key
gallopLeft(a, key, hint) ==
    gallopSearch(a, key,
                 IF keyIsRightOf(a[hint + 1], key, FALSE)
                 THEN gallopRightward(a, key, hint, 0, 1, Len(a) - hint, FALSE)
                 ELSE gallopLeftward(a, key, hint, 0, 1, hint + 1, FALSE),
                 FALSE)

\* GallopRight(a, key, 0, Len(a), hint): the place of key in the run a,
\* behind the elements the search does not find key below
gallopRight(a, key, hint) ==
    gallopSearch(a, key,
                 IF keyIsRightOf(a[hint + 1], key, TRUE)
                 THEN gallopRightward(a, key, hint, 0, 1, Len(a) - hint, TRUE)
                 ELSE gallopLeftward(a, key, hint, 0, 1, hint + 1, TRUE),
                 TRUE)

Front(s) == SubSeq(s, 1, Len(s) - 1)

Drop(s, n) == SubSeq(s, n + 1, Len(s))

\* A merge of two neighbouring runs in progress.  front is the part of the
\* first run that is in place before the merge area and back the part of
\* the second run that is in place behind it; A and B are what is left of
\* the two runs, done is what is merged so far, minGallop is the merge's
\* minGallop.  at is the place in the merge: taking elements one by one
\* ("oneByOne"), at the start of a turn of the galloping loop
\* ("galloping"), in the turn with the stretch of the first search found
\* ("found1") or with the stretch of the second search found ("found2"),
\* or at the end ("merged": done is the two runs merged and minGallop is
\* sortState.minGallop).
Merging(front, done, A, B, back, minGallop) ==
    [at |-> "oneByOne", front |-> front, done |-> done, A |-> A, B |-> B,
     back |-> back, nofWinsA |-> 0, nofWinsB |-> 0, minGallop |-> minGallop]

\* the merge ends with array in the merge area
Merged(m, array) ==
    [m EXCEPT !.at = "merged", !.done = m.front \o array \o m.back]

\* A step of MergeLow, which merges run A (the shorter, copied aside) with
\* run B from the front; done is the start of the merge area.  At the
\* label Succeed the rest of A follows (the rest of B is in place behind
\* it), at CopyB the rest of B and then the last element of A.
mergeLowStep(m) ==
    IF m.at = "oneByOne"
    THEN \* one comparison of the loop that takes the elements one by one
         IF spatialCompare(m.B[1], m.A[1]) < 0
         THEN IF Len(m.B) = 1
              THEN Merged(m, Append(m.done, m.B[1]) \o m.A)
              ELSE [m EXCEPT
                      !.done = Append(@, m.B[1]), !.B = Tail(@),
                      !.nofWinsA = 0, !.nofWinsB = @ + 1,
                      !.at = IF m.nofWinsB + 1 >= m.minGallop
                             THEN "galloping" ELSE "oneByOne",
                      !.minGallop = IF m.nofWinsB + 1 >= m.minGallop
                                    THEN @ + 1 ELSE @]
         ELSE IF Len(m.A) = 2
              THEN Merged(m, Append(m.done, m.A[1]) \o m.B \o Tail(m.A))
              ELSE [m EXCEPT
                      !.done = Append(@, m.A[1]), !.A = Tail(@),
                      !.nofWinsA = @ + 1, !.nofWinsB = 0,
                      !.at = IF m.nofWinsA + 1 >= m.minGallop
                             THEN "galloping" ELSE "oneByOne",
                      !.minGallop = IF m.nofWinsA + 1 >= m.minGallop
                                    THEN @ + 1 ELSE @]
    ELSE IF m.at = "galloping"
    THEN \* a turn of the galloping loop: the elements of A that go before
         \* the first of B
         [m EXCEPT !.at = "found1",
                   !.minGallop = IF @ > 1 THEN @ - 1 ELSE 1,
                   !.nofWinsA = gallopRight(m.A, m.B[1], 0)]
    ELSE IF m.at = "found1"
    THEN \* they are taken, then the first of B, and the elements of B that
         \* go before the first of A are searched
         LET done == m.done \o SubSeq(m.A, 1, m.nofWinsA)
             A == Drop(m.A, m.nofWinsA)
         IN IF m.nofWinsA > 0 /\ Len(A) = 1 THEN Merged(m, done \o m.B \o A)
            ELSE IF m.nofWinsA > 0 /\ Len(A) = 0 THEN Merged(m, done \o m.B)
            ELSE IF Len(m.B) = 1 THEN Merged(m, Append(done, m.B[1]) \o A)
            ELSE [m EXCEPT !.at = "found2",
                           !.done = Append(done, m.B[1]),
                           !.A = A, !.B = Tail(@),
                           !.nofWinsB = gallopLeft(Tail(m.B), A[1], 0)]
    ELSE IF m.at = "found2"
    THEN \* they are taken, then the first of A; the loop goes on while a
         \* search finds kMinGallopWins elements
         LET done == m.done \o SubSeq(m.B, 1, m.nofWinsB)
             B == Drop(m.B, m.nofWinsB)
             goesOn == m.nofWinsA >= kMinGallopWins
                          \/ m.nofWinsB >= kMinGallopWins
         IN IF m.nofWinsB > 0 /\ B = <<>> THEN Merged(m, done \o m.A)
            ELSE IF Len(m.A) = 2
            THEN Merged(m, Append(done, m.A[1]) \o B \o Tail(m.A))
            ELSE [m EXCEPT !.at = IF goesOn THEN "galloping" ELSE "oneByOne",
                           !.minGallop = IF goesOn THEN @ ELSE @ + 1,
                           !.done = Append(done, m.A[1]),
                           !.A = Tail(@), !.B = B,
                           !.nofWinsA = 0, !.nofWinsB = 0]
    ELSE m

\* A step of MergeHigh, which merges run A with run B (the shorter, copied
\* aside) from the back; done is the end of the merge area.  At the label
\* Succeed the rest of B goes in front of it (the rest of A is in place
\* before it), at CopyA the rest of A and before it the first element of B.
mergeHighStep(m) ==
    IF m.at = "oneByOne"
    THEN \* one comparison of the loop that takes the elements one by one
         IF spatialCompare(m.B[Len(m.B)], m.A[Len(m.A)]) < 0
         THEN IF Len(m.A) = 1
              THEN Merged(m, m.B \o m.A \o m.done)
              ELSE [m EXCEPT
                      !.done = <<m.A[Len(m.A)]>> \o @, !.A = Front(@),
                      !.nofWinsA = @ + 1, !.nofWinsB = 0,
                      !.at = IF m.nofWinsA + 1 >= m.minGallop
                             THEN "galloping" ELSE "oneByOne",
                      !.minGallop = IF m.nofWinsA + 1 >= m.minGallop
                                    THEN @ + 1 ELSE @]
         ELSE IF Len(m.B) = 2
              THEN Merged(m, Front(m.B) \o m.A \o <<m.B[2]>> \o m.done)
              ELSE [m EXCEPT
                      !.done = <<m.B[Len(m.B)]>> \o @, !.B = Front(@),
                      !.nofWinsA = 0, !.nofWinsB = @ + 1,
                      !.at = IF m.nofWinsB + 1 >= m.minGallop
                             THEN "galloping" ELSE "oneByOne",
                      !.minGallop = IF m.nofWinsB + 1 >= m.minGallop
                                    THEN @ + 1 ELSE @]
    ELSE IF m.at = "galloping"
    THEN \* a turn of the galloping loop: the elements of A that go behind
         \* the last of B
         [m EXCEPT !.at = "found1",
                   !.minGallop = IF @ > 1 THEN @ - 1 ELSE 1,
                   !.nofWinsA = Len(m.A) - gallopRight(m.A, m.B[Len(m.B)],
                                                       Len(m.A) - 1)]
    ELSE IF m.at = "found1"
    THEN \* they are taken, then the last of B, and the elements of B that
         \* go behind the last of A are searched
         LET A == SubSeq(m.A, 1, Len(m.A) - m.nofWinsA)
             done == Drop(m.A, Len(m.A) - m.nofWinsA) \o m.done
         IN IF m.nofWinsA > 0 /\ A = <<>> THEN Merged(m, m.B \o done)
            ELSE IF Len(m.B) = 2
            THEN Merged(m, Front(m.B) \o A \o <<m.B[2]>> \o done)
            ELSE [m EXCEPT !.at = "found2",
                           !.done = <<m.B[Len(m.B)]>> \o done,
                           !.A = A, !.B = Front(@),
                           !.nofWinsB =
                               (Len(m.B) - 1)
                                   - gallopLeft(Front(m.B), A[Len(A)],
                                                Len(m.B) - 2)]
    ELSE IF m.at = "found2"
    THEN \* they are taken, then the last of A; the loop goes on while a
         \* search finds kMinGallopWins elements
         LET B == SubSeq(m.B, 1, Len(m.B) - m.nofWinsB)
             done == Drop(m.B, Len(m.B) - m.nofWinsB) \o m.done
             goesOn == m.nofWinsA >= kMinGallopWins
                          \/ m.nofWinsB >= kMinGallopWins
         IN IF m.nofWinsB > 0 /\ Len(B) = 1 THEN Merged(m, B \o m.A \o done)
            ELSE IF m.nofWinsB > 0 /\ Len(B) = 0 THEN Merged(m, m.A \o done)
            ELSE IF Len(m.A) = 1 THEN Merged(m, B \o m.A \o done)
            ELSE [m EXCEPT !.at = IF goesOn THEN "galloping" ELSE "oneByOne",
                           !.minGallop = IF goesOn THEN @ ELSE @ + 1,
                           !.done = <<m.A[Len(m.A)]>> \o done,
                           !.A = Front(@), !.B = B,
                           !.nofWinsA = 0, !.nofWinsB = 0]
    ELSE m

\* n steps of the merge m, or as many as it takes to end it; low says
\* that it is a merge of MergeLow
RECURSIVE mergeSteps(_, _, _)
mergeSteps(m, n, low) ==
    IF n = 0 \/ m.at = "merged" THEN m
    ELSE IF n = 1 THEN (IF low THEN mergeLowStep(m) ELSE mergeHighStep(m))
    ELSE mergeSteps(mergeSteps(m, n \div 2, low), n - (n \div 2), low)

\* MergeLow(baseA, lengthA, baseB, lengthB), lengthA <= lengthB: the first
\* element of B goes first (a turn of the galloping loop is three steps
\* and takes at least two elements)
mergeLow(front, A, B, back, minGallop) ==
    IF Len(B) = 1 \/ Len(A) = 1
    THEN Merged(Merging(front, <<>>, A, B, back, minGallop), B \o A)
    ELSE mergeSteps(Merging(front, <<B[1]>>, A, Tail(B), back, minGallop),
                    2 * (Len(A) + Len(B)), TRUE)

\* MergeHigh(baseA, lengthA, baseB, lengthB), lengthA > lengthB: the last
\* element of A goes last
mergeHigh(front, A, B, back, minGallop) ==
    IF Len(A) = 1 \/ Len(B) = 1
    THEN Merged(Merging(front, <<>>, A, B, back, minGallop), B \o A)
    ELSE mergeSteps(
             Merging(front, <<A[Len(A)]>>, Front(A), B, back, minGallop),
             2 * (Len(A) + Len(B)), FALSE)

\* the runs A and B merged, when the first k elements of A belong before
\* the first of B and the first lengthB elements of B before the last of
\* A: the other elements stay where they are
mergeTrimmed(A, B, minGallop, k, lengthB) ==
    IF k = Len(A) \/ lengthB = 0
    THEN Merged(Merging(<<>>, <<>>, A, B, <<>>, minGallop), A \o B)
    ELSE IF Len(A) - k <= lengthB
    THEN mergeLow(SubSeq(A, 1, k), Drop(A, k),
                  SubSeq(B, 1, lengthB), Drop(B, lengthB), minGallop)
    ELSE mergeHigh(SubSeq(A, 1, k), Drop(A, k),
                   SubSeq(B, 1, lengthB), Drop(B, lengthB), minGallop)

\* The pending runs: a sequence of runs, the last pushed at the end, and
\* sortState.minGallop.

\* runs i and i + 1 of the stack replaced by their merge
mergedAt(pendingRuns, i, merged) ==
    [pendingRuns |-> SubSeq(pendingRuns, 1, i - 1) \o <<merged.done>>
                         \o Drop(pendingRuns, i + 1),
     minGallop |-> merged.minGallop]

\* MergeAt(i): runs i and i + 1 of the stack (from 1) become one run.  The
\* searches are for the place of the first of run i + 1 in run i and for
\* the place of the last of run i in run i + 1.
mergeAt(sortState, i) ==
    LET A == sortState.pendingRuns[i]
        B == sortState.pendingRuns[i + 1]
    IN mergedAt(sortState.pendingRuns, i,
                mergeTrimmed(A, B, sortState.minGallop,
                             gallopRight(A, B[1], 0),
                             gallopLeft(B, A[Len(A)], Len(B) - 1)))

\* RunInvariantEstablished(pendingRuns, n), n from 1: the run two below n
\* is longer than the two above it together
runInvariantEstablished(pendingRuns, n) ==
    IF n < 3 THEN TRUE
    ELSE Len(pendingRuns[n - 2]) > Len(pendingRuns[n - 1]) + Len(pendingRuns[n])

\* the run to merge with its upper neighbour: the one below n when that
\* one is shorter than the one above n
mergeIndex(pendingRuns, n) ==
    IF n > 1 /\ Len(pendingRuns[n - 1]) < Len(pendingRuns[n + 1])
    THEN n - 1
    ELSE n

\* MergeCollapse: merge as long as a run is not longer than the two above
\* it together, or the run below the top not longer than the top; n is the
\* run below the top
RECURSIVE mergeCollapse(_)
mergeCollapse(sortState) ==
    LET pendingRuns == sortState.pendingRuns
        n == Len(pendingRuns) - 1
    IN IF Len(pendingRuns) <= 1 THEN sortState
       ELSE IF \/ ~runInvariantEstablished(pendingRuns, n + 1)
               \/ ~runInvariantEstablished(pendingRuns, n)
       THEN mergeCollapse(mergeAt(sortState, mergeIndex(pendingRuns, n)))
       ELSE IF Len(pendingRuns[n]) <= Len(pendingRuns[n + 1])
       THEN mergeCollapse(mergeAt(sortState, n))
       ELSE sortState

\* MergeForceCollapse: merge until one run is left
RECURSIVE mergeForceCollapse(_)
mergeForceCollapse(sortState) ==
    IF Len(sortState.pendingRuns) <= 1 THEN sortState
    ELSE mergeForceCollapse(
             mergeAt(sortState,
                     mergeIndex(sortState.pendingRuns,
                                Len(sortState.pendingRuns) - 1)))

\* the run that CountAndMakeRun has made at the start of rest, extended to
\* minRunLength (or to the end of the array) when it is shorter
extendedRun(made, minRunLength) ==
    IF made.length < minRunLength
    THEN binaryInsertionSort(
             SubSeq(made.array, 1, Min(minRunLength, Len(made.array))),
             made.length + 1)
    ELSE SubSeq(made.array, 1, made.length)

\* the loop of the sort over the rest of the array, which it cuts into
\* runs; gives the stack
RECURSIVE collectRuns(_, _, _)

\* run, which starts rest, is pushed on the stack and the stack collapsed;
\* the loop goes on behind the run
pushRun(rest, minRunLength, sortState, run) ==
    collectRuns(Drop(rest, Len(run)), minRunLength,
                mergeCollapse(
                    [pendingRuns |-> Append(sortState.pendingRuns, run),
                     minGallop |-> sortState.minGallop]))

collectRuns(rest, minRunLength, sortState) ==
    IF rest = <<>> THEN sortState
    ELSE pushRun(rest, minRunLength, sortState,
                 extendedRun(countAndMakeRun(rest), minRunLength))

\* predictions.sort((a, b) => ...)
arraySort(a) ==
    IF Len(a) < 2 THEN a
    ELSE mergeForceCollapse(
             collectRuns(a, computeMinRunLength(Len(a), 0),
                         [pendingRuns |-> <<>>,
                          minGallop |-> kMinGallopWins])).pendingRuns[1]

\* sortSlotsSpatiallly: the batch in the order the sort leaves it in
sortSlotsSpatiallly(predictions) == arraySort(predictions)

slotsPerRow == 8

\* Math.ceil(totalSlots / slotsPerRow)
totalRowsOf(totalSlots) == (totalSlots + slotsPerRow - 1) \div slotsPerRow

\* a corner test whose row count is Math.floor(totalSlots / slotsPerRow)
isCornerSlotFloorRows(index, totalSlots) ==
    LET row == index \div slotsPerRow
        col == index % slotsPerRow
        totalRows == totalSlots \div slotsPerRow
    IN (row = 0 \/ row = totalRows - 1) /\ (col = 0 \/ col = slotsPerRow - 1)

isCornerSlot(index, totalSlots) ==
    LET row == index \div slotsPerRow
        col == index % slotsPerRow
        totalRows == totalRowsOf(totalSlots)
    IN (row = 0 \/ row = totalRows - 1) /\ (col = 0 \/ col = slotsPerRow - 1)

\* an edge test that looks at the rows only
isEdgeSlotRowsOnly(index, totalSlots) ==
    LET row == index \div slotsPerRow
        totalRows == totalRowsOf(totalSlots)
    IN row = 0 \/ row = totalRows - 1

isEdgeSlot(index, totalSlots) ==
    LET row == index \div slotsPerRow
        col == index % slotsPerRow
        totalRows == totalRowsOf(totalSlots)
    IN row = 0 \/ row = totalRows - 1 \/ col = 0 \/ col = slotsPerRow - 1

FallbackEntranceX == 640
FallbackEntranceY == 480

\* imageData?.width ? imageData.width / 2 : 640 (widths of the model are even)
calculateDistanceFromEntrance(prediction, imageData) ==
    LET entranceX == IF imageData # Null /\ imageData.width # 0
                     THEN imageData.width \div 2 ELSE FallbackEntranceX
        entranceY == IF imageData # Null /\ imageData.height # 0
                     THEN imageData.height ELSE FallbackEntranceY
        dx == prediction.x - entranceX
        dy == prediction.y - entranceY
    IN dx * dx + dy * dy

\* a slot whose row is taken from the 1-based slot number
slotOfRowFromNumber(pred, index, totalSlots, imageData) ==
    [slot_number |-> index + 1,
     status |-> IF isEmptySlot(pred.class) THEN "empty" ELSE "occupied",
     row |-> (index + 1) \div slotsPerRow,
     col |-> index % slotsPerRow,
     x |-> pred.x,
     y |-> pred.y,
     width |-> pred.width,
     height |-> pred.height,
     confidence |-> pred.confidence,
     original_class |-> pred.class,
     is_corner |-> isCornerSlot(index, totalSlots),
     is_edge |-> isEdgeSlot(index, totalSlots),
     distance_from_entrance |-> calculateDistanceFromEntrance(pred, imageData)]

\* the slots: sortedSlots.map((pred, index) => ({...}))
slotOf(pred, index, totalSlots, imageData) ==
    [slot_number |-> index + 1,
     status |-> IF isEmptySlot(pred.class) THEN "empty" ELSE "occupied",
     row |-> index \div slotsPerRow,
     col |-> index % slotsPerRow,
     x |-> pred.x,
     y |-> pred.y,
     width |-> pred.width,
     height |-> pred.height,
     confidence |-> pred.confidence,
     original_class |-> pred.class,
     is_corner |-> isCornerSlot(index, totalSlots),
     is_edge |-> isEdgeSlot(index, totalSlots),
     distance_from_entrance |-> calculateDistanceFromEntrance(pred, imageData)]

\* sortedSlots.filter(f).map((_, i) => i + 1)
filterMapIndex(sortedSlots, wantEmpty) ==
    LET kept == SelectSeq(sortedSlots, LAMBDA s : isEmptySlot(s.class) = wantEmpty)
    IN [i \in 1..Len(kept) |-> i]

\* the value roboflowAPI.detectParkingSlots returns for a sorted batch
parkingResult(sortedSlots, imageData) ==
    [total_slots |-> Len(sortedSlots),
     empty_slots |-> filterMapIndex(sortedSlots, TRUE),
     occupied_slots |-> filterMapIndex(sortedSlots, FALSE),
     slots |-> [i \in 1..Len(sortedSlots) |->
                   slotOf(sortedSlots[i], i - 1, Len(sortedSlots), imageData)],
     detection_image |-> imageData]

(***************************************************************************)
(* Vehicle classification.                                                 *)
(***************************************************************************)
\* classMapping of mapClassToVehicleType, in insertion order
\* (Object.entries iterates string keys in insertion order)
classMapping ==
    << [key |-> <<"c","a","r">>, value |-> "car"],
       [key |-> <<"s","e","d","a","n">>, value |-> "car"],
       [key |-> <<"h","a","t","c","h","b","a","c","k">>, value |-> "car"],
       [key |-> <<"s","u","v">>, value |-> "car"],
       [key |-> <<"t","r","u","c","k">>, value |-> "truck"],
       [key |-> <<"p","i","c","k","u","p">>, value |-> "truck"],
       [key |-> <<"b","u","s">>, value |-> "bus"],
       [key |-> <<"m","o","t","o","r","c","y","c","l","e">>, value |-> "motorcycle"],
       [key |-> <<"m","o","t","o","r","b","i","k","e">>, value |-> "motorcycle"],
       [key |-> <<"b","i","k","e">>, value |-> "motorcycle"],
       [key |-> <<"s","c","o","o","t","e","r">>, value |-> "motorcycle"],
       [key |-> <<"v","a","n">>, value |-> "van"],
       [key |-> <<"m","i","n","i","v","a","n">>, value |-> "van"] >>

\* the for loop of mapClassToVehicleType from entry k on
RECURSIVE mapClassFrom(_, _)
mapClassFrom(lowerClass, k) ==
    IF k > Len(classMapping) THEN "car"
    ELSE IF includes(lowerClass, classMapping[k].key) THEN classMapping[k].value
    ELSE mapClassFrom(lowerClass, k + 1)

\* a lookup that does not lower-case the label
mapClassCaseSensitive(detectedClass) ==
    mapClassFrom(detectedClass, 1)

\* class labels of the vehicle detection service
LabelCar == <<"C","a","r">>
LabelPickupTruck == <<"P","i","c","k","u","p"," ","T","r","u","c","k">>
LabelScooterX1 == <<"S","c","o","o","t","e","r","-","X","1">>
LabelGolfCart == <<"G","o","l","f"," ","C","a","r","t">>

\* mapClassToVehicleType on the labels of the session's answers, computed once
vehicleTypeOfLabel ==
    [label \in {LabelCar, LabelPickupTruck, LabelScooterX1} |->
        mapClassFrom(toLowerCase(label), 1)]

mapClassToVehicleType(detectedClass) ==
    IF detectedClass \in DOMAIN vehicleTypeOfLabel
    THEN vehicleTypeOfLabel[detectedClass]
    ELSE mapClassFrom(toLowerCase(detectedClass), 1)

\* a reduce that keeps the last prediction of maximum confidence
RECURSIVE bestPredictionLastOf(_)
bestPredictionLastOf(predictions) ==
    IF Len(predictions) = 1 THEN predictions[1]
    ELSE LET best == bestPredictionLastOf(SubSeq(predictions, 1, Len(predictions) - 1))
             current == predictions[Len(predictions)]
         IN IF current.confidence >= best.confidence THEN current ELSE best

\* result.predictions.reduce((best, current) =>
\*     current.confidence > best.confidence ? current : best)
RECURSIVE bestPredictionOf(_)
bestPredictionOf(predictions) ==
    IF Len(predictions) = 1 THEN predictions[1]
    ELSE LET best == bestPredictionOf(SubSeq(predictions, 1, Len(predictions) - 1))
             current == predictions[Len(predictions)]
         IN IF current.confidence > best.confidence THEN current ELSE best

\* the value roboflowAPI.detectVehicleType returns for a non-empty prediction list
vehicleResultOf(predictions) ==
    LET bestPrediction == bestPredictionOf(predictions)
    IN [vehicle_type |-> mapClassToVehicleType(bestPrediction.class),
        confidence |-> bestPrediction.confidence,
        x |-> bestPrediction.x,
        y |-> bestPrediction.y,
        width |-> bestPrediction.width,
        height |-> bestPrediction.height,
        original_class |-> bestPrediction.class]

(***************************************************************************)
(* Slot allocation.                                                        *)
(***************************************************************************)
vehicleRules ==
    [car        |-> [priority |-> "closest",     allow_middle |-> TRUE],
     motorcycle |-> [priority |-> "furthest",    allow_middle |-> TRUE],
     truck      |-> [priority |-> "corner_edge", allow_middle |-> FALSE],
     bus        |-> [priority |-> "corner_edge", allow_middle |-> FALSE],
     van        |-> [priority |-> "corner_edge", allow_middle |-> FALSE]]

\* a reduce that keeps the last slot of minimum distance
RECURSIVE reduceClosestLast(_)
reduceClosestLast(slots) ==
    IF Len(slots) = 1 THEN slots[1]
    ELSE LET closest == reduceClosestLast(SubSeq(slots, 1, Len(slots) - 1))
             slot == slots[Len(slots)]
         IN IF slot.distance_from_entrance <= closest.distance_from_entrance
            THEN slot ELSE closest

\* emptySlots.reduce((closest, slot) =>
\*     slot.distance_from_entrance < closest.distance_from_entrance ? slot : closest)
RECURSIVE reduceClosest(_)
reduceClosest(slots) ==
    IF Len(slots) = 1 THEN slots[1]
    ELSE LET closest == reduceClosest(SubSeq(slots, 1, Len(slots) - 1))
             slot == slots[Len(slots)]
         IN IF slot.distance_from_entrance < closest.distance_from_entrance
            THEN slot ELSE closest

\* a reduce that keeps the last slot of maximum distance
RECURSIVE reduceFurthestLast(_)
reduceFurthestLast(slots) ==
    IF Len(slots) = 1 THEN slots[1]
    ELSE LET furthest == reduceFurthestLast(SubSeq(slots, 1, Len(slots) - 1))
             slot == slots[Len(slots)]
         IN IF slot.distance_from_entrance > furthest.distance_from_entrance
               \/ slot.distance_from_entrance = furthest.distance_from_entrance
            THEN slot ELSE furthest

\* slots.reduce((furthest, slot) =>
\*     slot.distance_from_entrance > furthest.distance_from_entrance ? slot : furthest)
RECURSIVE reduceFurthest(_)
reduceFurthest(slots) ==
    IF Len(slots) = 1 THEN slots[1]
    ELSE LET furthest == reduceFurthest(SubSeq(slots, 1, Len(slots) - 1))
             slot == slots[Len(slots)]
         IN IF slot.distance_from_entrance > furthest.distance_from_entrance
            THEN slot ELSE furthest

\* a filter that keeps every slot
allSlotsOf(slots) == slots

\* detectedSlots.filter(slot => slot.status === 'empty')
emptySlotsOf(slots) == SelectSeq(slots, LAMBDA slot : slot.status = "empty")

\* a filter that keeps the corner slots only
cornerOnlySlotsOf(emptySlots) ==
    SelectSeq(emptySlots, LAMBDA slot : slot.is_corner)

\* emptySlots.filter(slot => slot.is_corner || slot.is_edge)
cornerEdgeSlotsOf(emptySlots) ==
    SelectSeq(emptySlots, LAMBDA slot : slot.is_corner \/ slot.is_edge)

\* bestSlot of detectVehicleAndAllocate, for a non-empty emptySlots
bestSlotOf(vehicleType, emptySlots) ==
    LET rules == vehicleRules[vehicleType]
    IN IF rules.priority = "closest" THEN reduceClosest(emptySlots)
       ELSE IF rules.priority = "furthest" THEN reduceFurthest(emptySlots)
       ELSE IF rules.priority = "corner_edge"
            THEN LET cornerEdgeSlots == cornerEdgeSlotsOf(emptySlots)
                 IN IF Len(cornerEdgeSlots) > 0
                    THEN reduceFurthest(cornerEdgeSlots)
                    ELSE emptySlots[1]
       ELSE Null

(***************************************************************************)
(* Paths.                                                                  *)
(***************************************************************************)
\* Natural numbers of any size, in base 2^13, least significant digit first
LimbBase == 2^13

RECURSIVE natOfInt(_)
natOfInt(n) ==
    IF n = 0 THEN <<>> ELSE <<n % LimbBase>> \o natOfInt(n \div LimbBase)

RECURSIVE natPlusCarry(_, _, _)
natPlusCarry(a, b, carry) ==
    IF a = <<>> /\ b = <<>>
    THEN natOfInt(carry)
    ELSE LET t == (IF a = <<>> THEN 0 ELSE a[1]) + (IF b = <<>> THEN 0 ELSE b[1]) + carry
         IN <<t % LimbBase>> \o natPlusCarry(IF a = <<>> THEN <<>> ELSE Tail(a),
                                              IF b = <<>> THEN <<>> ELSE Tail(b),
                                              t \div LimbBase)

natPlus(a, b) == natPlusCarry(a, b, 0)

RECURSIVE natTimesCarry(_, _, _)
natTimesCarry(a, k, carry) ==
    IF a = <<>>
    THEN natOfInt(carry)
    ELSE LET t == (a[1] * k) + carry
         IN <<t % LimbBase>> \o natTimesCarry(Tail(a), k, t \div LimbBase)

\* a times the integer k, 0 <= k <= 2^17
natTimes(a, k) == IF k = 0 THEN <<>> ELSE natTimesCarry(a, k, 0)

\* quotient q and remainder r of a by the integer k, 0 < k <= 2^17
RECURSIVE natDivMod(_, _)
natDivMod(a, k) ==
    IF a = <<>>
    THEN [q |-> <<>>, r |-> 0]
    ELSE LET high == natDivMod(Tail(a), k)
             t == (high.r * LimbBase) + a[1]
         IN [q |-> IF high.q = <<>> /\ t \div k = 0 THEN <<>> ELSE <<t \div k>> \o high.q,
             r |-> t % k]

\* -1, 0 or 1 as a is below, equal to or above b
RECURSIVE natCompare(_, _)
natCompare(a, b) ==
    IF Len(a) # Len(b) THEN (IF Len(a) < Len(b) THEN -1 ELSE 1)
    ELSE IF a = <<>> THEN 0
    ELSE LET high == natCompare(Tail(a), Tail(b))
         IN IF high # 0 THEN high
            ELSE IF a[1] < b[1] THEN -1
            ELSE IF a[1] > b[1] THEN 1
            ELSE 0

RECURSIVE bitLengthOfInt(_)
bitLengthOfInt(n) == IF n = 0 THEN 0 ELSE 1 + bitLengthOfInt(n \div 2)

natBitLength(a) ==
    IF a = <<>> THEN 0 ELSE (13 * (Len(a) - 1)) + bitLengthOfInt(a[Len(a)])

\* 1.0 as a number of the model: 2^60
NumberOne == natTimes(natTimes(natTimes(natTimes(<<1>>, 2^15), 2^15), 2^15), 2^15)

\* the double nearest to the exact value a (plus a fraction of a unit when
\* inexact): 53 significant bits, round to nearest, ties to even
numberRound(a, inexact) ==
    LET drop == natBitLength(a) - 53
    IN IF drop <= 0 THEN a
       ELSE IF drop < 13
       THEN \* the dropped bits and the last kept bit are in the lowest limb
            LET r == a[1] % (2^drop)
                half == 2^(drop - 1)
                odd == (a[1] \div (2^drop)) % 2 = 1
                up == \/ r > half
                      \/ r = half /\ (inexact \/ odd)
                down == [a EXCEPT ![1] = @ - r]
            IN IF up THEN natPlus(down, <<2^drop>>) ELSE down
       ELSE LET dm == natDivMod(a, 2^drop)
                half == 2^(drop - 1)
                odd == dm.q[1] % 2 = 1
                up == \/ dm.r > half
                      \/ dm.r = half /\ (inexact \/ odd)
            IN natTimes(IF up THEN natPlus(dm.q, <<1>>) ELSE dm.q, 2^drop)

\* the value of the decimal literal num/den (0.1 is numberOf(1, 10))
numberOf(num, den) ==
    LET dm == natDivMod(natTimes(NumberOne, num), den)
    IN numberRound(dm.q, dm.r # 0)

\* the integer n, 0 <= n <= 2^17, as a number
numberOfInt(n) == natTimes(NumberOne, n)

\* n * c for the number c and the non-negative integer n, rounded
numberProduct(n, c) == numberRound(natTimes(c, n), FALSE)

\* a times b
RECURSIVE natTimesNat(_, _)
natTimesNat(a, b) ==
    IF b = <<>> THEN <<>>
    ELSE LET high == natTimesNat(a, Tail(b))
         IN natPlus(natTimes(a, b[1]),
                    IF high = <<>> THEN <<>> ELSE <<0>> \o high)

\* a * b for the numbers a and b: the exact product (in units of 2^-120)
\* brought to units of 2^-60 and rounded once
numberProductOfNumbers(a, b) ==
    LET product == natTimesNat(a, b)
        low == SubSeq(product, 1, IF Len(product) < 4 THEN Len(product) ELSE 4)
        dm == natDivMod(SubSeq(product, 5, Len(product)), 2^8)
    IN numberRound(dm.q, dm.r # 0 \/ \E k \in 1..Len(low) : low[k] # 0)

\* the number a is an integer below 1024 (a multiple of 2^60)
isInteger(a) ==
    /\ Len(a) \in {5, 6}
    /\ \A k \in 1..4 : a[k] = 0
    /\ a[5] % (2^8) = 0

\* the integer that the number a is
intOfNumber(a) == (a[5] \div (2^8)) + (IF Len(a) = 6 THEN a[6] * (2^5) ELSE 0)

\* the products of the small integers with the decimal literals of the score
\* expressions, computed once
productOf ==
    [p \in (0..255) \X {numberOf(1, 10), numberOf(6, 10), numberOf(3, 10),
                        numberOf(4, 10), numberOf(12, 10), numberOf(8, 10)}
        |-> numberProduct(p[1], p[2])] @@ <<>>

\* n * c for the number c and the non-negative integer n
numberTimes(n, c) ==
    IF <<n, c>> \in DOMAIN productOf THEN productOf[<<n, c>>]
    ELSE numberProduct(n, c)

\* a * b for the numbers a and b (the product of an integer a is taken as
\* numberTimes takes it)
numberMultiply(a, b) ==
    IF isInteger(a) THEN numberTimes(intOfNumber(a), b)
    ELSE numberProductOfNumbers(a, b)

\* a + b
numberPlus(a, b) == numberRound(natPlus(a, b), FALSE)

\* a < b
numberLess(a, b) == natCompare(a, b) < 0

\* "Path " followed by the number
pathName(n) == <<"Path", n>>

\* the largest number below 1, 1 - 2^-53: 2^60 - 2^7 in base 2^13
RandomMax == <<8064, 8191, 8191, 8191, 255>>

\* outcomes of Math.random(): 0, 0.35 and the largest one
RandomOutcomes == {<<>>, numberOf(35, 100), RandomMax}

\* 65 + (i * 25) + Math.random() * 20 for the outcome random of Math.random()
distanceSum(i, random) ==
    numberPlus(numberOfInt(65 + (i * 25)), numberTimes(20, random))

\* the distances of the four path positions for RandomOutcomes, computed once
distanceOf ==
    [p \in (0..3) \X RandomOutcomes |-> distanceSum(p[1], p[2])] @@ <<>>

\* the distance of the path at position i
pathDistance(i, random) ==
    IF <<i, random>> \in DOMAIN distanceOf THEN distanceOf[<<i, random>>]
    ELSE distanceSum(i, random)

\* a generator that gives 4 paths to the slots of row 0 only
generatePathsFirstRowOnly(slot, draws) ==
    LET slotRow == slot.row
        pathCount == IF slotRow < 1 THEN 4 ELSE 3
    IN [k \in 1..pathCount |->
          LET i == k - 1
          IN [id |-> i + 1,
              name |-> pathName(i + 1),
              distance |-> pathDistance(i, draws[k].random),
              tJunctions |-> 1 + i + draws[k].extra,
              vehicleIntensity |-> Null,
              score |-> Null]]

\* a generator whose paths are 20 units apart
generatePathsCloser(slot, draws) ==
    LET slotRow == slot.row
        pathCount == IF slotRow <= 1 THEN 4 ELSE 3
    IN [k \in 1..pathCount |->
          LET i == k - 1
          IN [id |-> i + 1,
              name |-> pathName(i + 1),
              distance |-> numberPlus(numberOfInt(65 + (i * 20)),
                                      numberTimes(20, draws[k].random)),
              tJunctions |-> 1 + i + draws[k].extra,
              vehicleIntensity |-> Null,
              score |-> Null]]

\* generatePathsToSlot; draws[i + 1] holds the outcomes of the two
\* Math.random() calls of path i: random, the number returned by the call of
\* Math.random() * 20, and extra, the value of Math.floor(Math.random() * 2)
\* (0 for an outcome below 0.5, 1 otherwise).
\*     distance: 65 + (i * 25) + Math.random() * 20
generatePathsToSlot(slot, draws) ==
    LET slotRow == slot.row
        pathCount == IF slotRow <= 1 THEN 4 ELSE 3
    IN [k \in 1..pathCount |->
          LET i == k - 1
          IN [id |-> i + 1,
              name |-> pathName(i + 1),
              distance |-> pathDistance(i, draws[k].random),
              tJunctions |-> 1 + i + draws[k].extra,
              vehicleIntensity |-> Null,
              score |-> Null]]

\* pathVehicleIntensities[path.id] || 0
intensityOf(intensities, id) ==
    IF id \in DOMAIN intensities THEN intensities[id] ELSE 0

\* weights of calculateOptimalPath: 0.1, 0.6, 0.3
WeightDistance == numberOf(1, 10)
WeightJunctions == numberOf(6, 10)
WeightIntensity == numberOf(3, 10)

\* a score under the weights 0.4, 1.2, 0.8
scoreWithOtherWeights(path, intensity) ==
    numberPlus(numberPlus(numberMultiply(path.distance, numberOf(4, 10)),
                          numberTimes(path.tJunctions, numberOf(12, 10))),
               numberTimes(intensity, numberOf(8, 10)))

\* (path.distance * 0.1) + (path.tJunctions * 0.6) + (intensity * 0.3)
scoreOf(path, intensity) ==
    numberPlus(numberPlus(numberMultiply(path.distance, WeightDistance),
                          numberTimes(path.tJunctions, WeightJunctions)),
               numberTimes(intensity, WeightIntensity))

\* pathsData.map(path => ({...path, vehicleIntensity: intensity, score: score}))
pathsWithScoresOf(paths, intensities) ==
    [k \in 1..Len(paths) |->
        LET intensity == intensityOf(intensities, paths[k].id)
        IN [id |-> paths[k].id,
            name |-> paths[k].name,
            distance |-> paths[k].distance,
            tJunctions |-> paths[k].tJunctions,
            vehicleIntensity |-> intensity,
            score |-> scoreOf(paths[k], intensity)]]

\* a reduce that keeps the last path of minimum score
RECURSIVE bestPathLastOf(_)
bestPathLastOf(pathsWithScores) ==
    IF Len(pathsWithScores) = 1 THEN pathsWithScores[1]
    ELSE LET best == bestPathLastOf(SubSeq(pathsWithScores, 1, Len(pathsWithScores) - 1))
             path == pathsWithScores[Len(pathsWithScores)]
         IN IF ~numberLess(best.score, path.score) THEN path ELSE best

\* pathsWithScores.reduce((best, path) => path.score < best.score ? path : best)
RECURSIVE bestPathOf(_)
bestPathOf(pathsWithScores) ==
    IF Len(pathsWithScores) = 1 THEN pathsWithScores[1]
    ELSE LET best == bestPathOf(SubSeq(pathsWithScores, 1, Len(pathsWithScores) - 1))
             path == pathsWithScores[Len(pathsWithScores)]
         IN IF numberLess(path.score, best.score) THEN path ELSE best

\* weights of the All Paths Comparison view: 0.4, 1.2, 0.8
DisplayWeightDistance == numberOf(4, 10)
DisplayWeightJunctions == numberOf(12, 10)
DisplayWeightIntensity == numberOf(8, 10)

\* (path.distance * 0.4) + (path.tJunctions * 1.2) + (intensity * 0.8)
displayScoreOf(path, intensity) ==
    numberPlus(numberPlus(numberMultiply(path.distance, DisplayWeightDistance),
                          numberTimes(path.tJunctions, DisplayWeightJunctions)),
               numberTimes(intensity, DisplayWeightIntensity))

\* parseInt(value) for decimal text: optional white space, optional sign, then
\* the longest run of digits; NaN when there is no digit
Digits == <<"0","1","2","3","4","5","6","7","8","9">>

isDigit(c) == \E d \in 1..10 : Digits[d] = c

digitValue(c) == (CHOOSE d \in 1..10 : Digits[d] = c) - 1

RECURSIVE skipSpaces(_)
skipSpaces(s) ==
    IF s # <<>> /\ s[1] = " " THEN skipSpaces(Tail(s)) ELSE s

RECURSIVE parseDigits(_, _)
parseDigits(s, acc) ==
    IF s # <<>> /\ isDigit(s[1])
    THEN parseDigits(Tail(s), acc * 10 + digitValue(s[1]))
    ELSE acc

parseInt(value) ==
    LET t == skipSpaces(value)
        negative == t # <<>> /\ t[1] = "-"
        u == IF t # <<>> /\ (t[1] = "-" \/ t[1] = "+") THEN Tail(t) ELSE t
    IN IF u # <<>> /\ isDigit(u[1])
       THEN [nan |-> FALSE,
             value |-> IF negative THEN -parseDigits(u, 0) ELSE parseDigits(u, 0)]
       ELSE [nan |-> TRUE, value |-> 0]

\* parseInt(value) || 0
parseIntOrZero(value) ==
    LET n == parseInt(value) IN IF n.nan THEN 0 ELSE n.value

(***************************************************************************)
(* The session: inputs.                                                    *)
(***************************************************************************)
ClassEmpty == <<"e","m","p","t","y">>
ClassOccupied == <<"o","c","c","u","p","i","e","d">>

\* a prediction of the detection service
Prediction(px, py, cls, conf) ==
    [x |-> px, y |-> py, width |-> 40, height |-> 60, confidence |-> conf, class |-> cls]

\* result.image of a response that carries the image dimensions
ImageData == [width |-> 800, height |-> 300]

\* a data URL produced by FileReader.readAsDataURL
DataUrl == [data |-> "image"]

Waiting == [waiting |-> TRUE]

SeqsUpTo(S, n) == UNION {[1..k -> S] : k \in 0..n}

MaxSessionSlots == 2

SessionDetections ==
    {Prediction(100, 100, ClassEmpty, 90),
     Prediction(300, 100, ClassOccupied, 80),
     Prediction(600, 250, ClassEmpty, 70)}

\* answers of the slot detection service: a non-success status, or a body
\* with a prediction list (possibly empty) and optional image dimensions
ParkingResponses ==
    {[ok |-> FALSE, status |-> 500]}
    \cup {[ok |-> TRUE, predictions |-> b, image |-> im] :
             b \in SeqsUpTo(SessionDetections, MaxSessionSlots),
             im \in {Null, ImageData}}

MaxVehiclePredictions == 2

SessionVehicles ==
    {Prediction(320, 240, LabelCar, 90),
     Prediction(320, 240, LabelPickupTruck, 90),
     Prediction(320, 240, LabelScooterX1, 60)}

VehicleResponses ==
    {[ok |-> FALSE, status |-> 500]}
    \cup {[ok |-> TRUE, predictions |-> b] :
             b \in SeqsUpTo(SessionVehicles, MaxVehiclePredictions)}

\* outcomes of the Math.random() calls of one generatePathsToSlot call: the
\* two ends of the range of Math.random()
PathDraws ==
    {[k \in 1..4 |-> [random |-> <<>>, extra |-> 0]],
     [k \in 1..4 |-> IF k % 2 = 1 THEN [random |-> RandomMax, extra |-> 0]
                                  ELSE [random |-> <<>>, extra |-> 1]]}

\* outcomes of Math.floor(Math.random() * 80) of one analysis, per path position
IntensityDraws ==
    {[k \in 1..4 |-> 79],
     [k \in 1..4 |-> IF k % 2 = 1 THEN 50 ELSE 6]}

\* texts typed into an intensity field
ManualInputs == { <<"1","5","0">> }

\* the two upload areas
ReadKinds == {"parking", "vehicle"}

\* files chosen in one upload area whose reads are under way together
MaxReads == 2

ErrApiKey == "Please enter your Roboflow API key"
ErrParkingStatus == "Failed to detect parking slots: API Error: 500 - Internal Server Error"
ErrParkingNone == "Failed to detect parking slots: No parking slots detected. Try adjusting the image or confidence threshold."
ErrVehicleStatus == "Failed to detect vehicle: Vehicle detection failed: 500"
ErrVehicleNone == "Failed to detect vehicle: No vehicle detected in the image"
ErrNoEmptySlots == "No empty slots available"

(***************************************************************************)
(* The session: state after construction and handlers.                     *)
(***************************************************************************)
SessionInit ==
    /\ currentStep = 1
    /\ parkingImage = Null
    /\ vehicleImage = Null
    /\ detectedSlots = <<>>
    /\ detectedVehicleType = Null
    /\ allocatedSlot = Null
    /\ pathsData = <<>>
    /\ pathVehicleIntensities = <<>>
    /\ optimalPath = Null
    /\ isProcessing = FALSE
    /\ error = ""
    /\ detectionImage = Null
    /\ apiKey = FALSE
    /\ reading = [kind \in ReadKinds |-> 0]
    /\ pending = {}

Init ==
    /\ SessionInit
    /\ fin = Null
    /\ fout = Null

\* onChange of the key field: setApiKey(e.target.value); the field is only
\* rendered while the key is empty
setApiKey ==
    /\ ~apiKey
    /\ apiKey' = TRUE
    /\ UNCHANGED <<currentStep, parkingImage, vehicleImage, detectedSlots,
                   detectedVehicleType, allocatedSlot, pathsData,
                   pathVehicleIntensities, optimalPath, isProcessing, error,
                   detectionImage, reading, pending, fin, fout>>

\* the Connect button, rendered while the key is empty
handleApiKeySubmit ==
    /\ ~apiKey
    /\ error' = ErrApiKey
    /\ UNCHANGED <<currentStep, parkingImage, vehicleImage, detectedSlots,
                   detectedVehicleType, allocatedSlot, pathsData,
                   pathVehicleIntensities, optimalPath, isProcessing,
                   detectionImage, apiKey, reading, pending, fin, fout>>

\* a file is chosen in the parking lot upload area (step 1): a FileReader of
\* its own starts reading it
handleParkingImageUpload ==
    /\ apiKey /\ currentStep = 1
    /\ reading["parking"] < MaxReads
    /\ reading' = [reading EXCEPT !["parking"] = @ + 1]
    /\ UNCHANGED <<currentStep, parkingImage, vehicleImage, detectedSlots,
                   detectedVehicleType, allocatedSlot, pathsData,
                   pathVehicleIntensities, optimalPath, isProcessing, error,
                   detectionImage, apiKey, pending, fin, fout>>

\* reader.onload of handleParkingImageUpload
parkingReaderOnload ==
    /\ reading["parking"] > 0
    /\ reading' = [reading EXCEPT !["parking"] = @ - 1]
    /\ parkingImage' = DataUrl
    /\ error' = ""
    /\ UNCHANGED <<currentStep, vehicleImage, detectedSlots,
                   detectedVehicleType, allocatedSlot, pathsData,
                   pathVehicleIntensities, optimalPath, isProcessing,
                   detectionImage, apiKey, pending, fin, fout>>

\* a file is chosen in the vehicle upload area (step 2): a FileReader of its
\* own starts reading it
handleVehicleImageUpload ==
    /\ apiKey /\ currentStep = 2
    /\ reading["vehicle"] < MaxReads
    /\ reading' = [reading EXCEPT !["vehicle"] = @ + 1]
    /\ UNCHANGED <<currentStep, parkingImage, vehicleImage, detectedSlots,
                   detectedVehicleType, allocatedSlot, pathsData,
                   pathVehicleIntensities, optimalPath, isProcessing, error,
                   detectionImage, apiKey, pending, fin, fout>>

\* reader.onload of handleVehicleImageUpload
vehicleReaderOnload ==
    /\ reading["vehicle"] > 0
    /\ reading' = [reading EXCEPT !["vehicle"] = @ - 1]
    /\ vehicleImage' = DataUrl
    /\ error' = ""
    /\ UNCHANGED <<currentStep, parkingImage, detectedSlots,
                   detectedVehicleType, allocatedSlot, pathsData,
                   pathVehicleIntensities, optimalPath, isProcessing,
                   detectionImage, apiKey, pending, fin, fout>>

\* the detection service answers a suspended detection call
serviceResponds ==
    \E p \in pending :
        /\ p.op \in {"detectParkingSlots", "detectVehicleAndAllocate"}
        /\ p.response = Waiting
        /\ \E r \in IF p.op = "detectParkingSlots" THEN ParkingResponses
                                                   ELSE VehicleResponses :
              pending' = (pending \ {p}) \cup {[p EXCEPT !.response = r]}
        /\ UNCHANGED <<currentStep, parkingImage, vehicleImage, detectedSlots,
                       detectedVehicleType, allocatedSlot, pathsData,
                       pathVehicleIntensities, optimalPath, isProcessing, error,
                       detectionImage, apiKey, reading, fin, fout>>

\* a slot detection whose button is not disabled while isProcessing
detectParkingSlotsStartWhileProcessing ==
    /\ apiKey /\ currentStep = 1 /\ parkingImage # Null
    /\ isProcessing' = TRUE
    /\ error' = ""
    /\ pending' = pending \cup {[op |-> "detectParkingSlots", response |-> Waiting]}
    /\ UNCHANGED <<currentStep, parkingImage, vehicleImage, detectedSlots,
                   detectedVehicleType, allocatedSlot, pathsData,
                   pathVehicleIntensities, optimalPath,
                   detectionImage, apiKey, reading, fin, fout>>

\* detectParkingSlots up to its await: the button is rendered at step 1 when
\* an image is loaded and is disabled while isProcessing
detectParkingSlotsStart ==
    /\ apiKey /\ currentStep = 1 /\ parkingImage # Null /\ ~isProcessing
    /\ isProcessing' = TRUE
    /\ error' = ""
    /\ pending' = pending \cup {[op |-> "detectParkingSlots", response |-> Waiting]}
    /\ UNCHANGED <<currentStep, parkingImage, vehicleImage, detectedSlots,
                   detectedVehicleType, allocatedSlot, pathsData,
                   pathVehicleIntensities, optimalPath,
                   detectionImage, apiKey, reading, fin, fout>>

\* a slot detection that takes an answer with zero predictions for a result
detectParkingSlotsDoneEmptyResult ==
    \E p \in pending :
        /\ p.op = "detectParkingSlots"
        /\ p.response # Waiting
        /\ pending' = pending \ {p}
        /\ isProcessing' = FALSE
        /\ IF ~p.response.ok
           THEN /\ error' = ErrParkingStatus
                /\ UNCHANGED <<detectedSlots, detectionImage, currentStep>>
           ELSE LET sortedSlots == sortSlotsSpatiallly(p.response.predictions)
                    result == parkingResult(sortedSlots, p.response.image)
                IN /\ detectedSlots' = result.slots
                   /\ detectionImage' = IF result.detection_image # Null
                                        THEN result.detection_image
                                        ELSE detectionImage
                   /\ currentStep' = 2
                   /\ UNCHANGED error
        /\ UNCHANGED <<parkingImage, vehicleImage, detectedVehicleType,
                       allocatedSlot, pathsData, pathVehicleIntensities,
                       optimalPath, apiKey, reading, fin, fout>>

\* detectParkingSlots from the answer on: roboflowAPI.detectParkingSlots
\* throws on a non-success status and on an empty prediction list
detectParkingSlotsDone ==
    \E p \in pending :
        /\ p.op = "detectParkingSlots"
        /\ p.response # Waiting
        /\ pending' = pending \ {p}
        /\ isProcessing' = FALSE
        /\ IF ~p.response.ok
           THEN /\ error' = ErrParkingStatus
                /\ UNCHANGED <<detectedSlots, detectionImage, currentStep>>
           ELSE IF Len(p.response.predictions) = 0
           THEN /\ error' = ErrParkingNone
                /\ UNCHANGED <<detectedSlots, detectionImage, currentStep>>
           ELSE LET sortedSlots == sortSlotsSpatiallly(p.response.predictions)
                    result == parkingResult(sortedSlots, p.response.image)
                IN /\ detectedSlots' = result.slots
                   /\ detectionImage' = IF result.detection_image # Null
                                        THEN result.detection_image
                                        ELSE detectionImage
                   /\ currentStep' = 2
                   /\ UNCHANGED error
        /\ UNCHANGED <<parkingImage, vehicleImage, detectedVehicleType,
                       allocatedSlot, pathsData, pathVehicleIntensities,
                       optimalPath, apiKey, reading, fin, fout>>

\* detectVehicleAndAllocate up to its await; the handler keeps the
\* detectedSlots of the render it was created in
detectVehicleAndAllocateStart ==
    /\ apiKey /\ currentStep = 2 /\ vehicleImage # Null /\ ~isProcessing
    /\ isProcessing' = TRUE
    /\ error' = ""
    /\ pending' = pending \cup {[op |-> "detectVehicleAndAllocate",
                                 detectedSlots |-> detectedSlots,
                                 response |-> Waiting]}
    /\ UNCHANGED <<currentStep, parkingImage, vehicleImage, detectedSlots,
                   detectedVehicleType, allocatedSlot, pathsData,
                   pathVehicleIntensities, optimalPath,
                   detectionImage, apiKey, reading, fin, fout>>

\* a vehicle detection whose return on 'no empty slots' leaves the
\* processing flag set
detectVehicleAndAllocateDoneReturnKeepsFlag ==
    \E p \in pending :
        /\ p.op = "detectVehicleAndAllocate"
        /\ p.response # Waiting
        /\ pending' = pending \ {p}
        /\ isProcessing' = (/\ p.response.ok
                            /\ Len(p.response.predictions) > 0
                            /\ Len(emptySlotsOf(p.detectedSlots)) = 0)
        /\ IF ~p.response.ok
           THEN /\ error' = ErrVehicleStatus
                /\ UNCHANGED <<detectedVehicleType, allocatedSlot, pathsData, currentStep>>
           ELSE IF Len(p.response.predictions) = 0
           THEN /\ error' = ErrVehicleNone
                /\ UNCHANGED <<detectedVehicleType, allocatedSlot, pathsData, currentStep>>
           ELSE LET vehicleResult == vehicleResultOf(p.response.predictions)
                    emptySlots == emptySlotsOf(p.detectedSlots)
                IN /\ detectedVehicleType' = vehicleResult
                   /\ IF Len(emptySlots) = 0
                      THEN /\ error' = ErrNoEmptySlots
                           /\ UNCHANGED <<allocatedSlot, pathsData, currentStep>>
                      ELSE LET bestSlot == bestSlotOf(vehicleResult.vehicle_type, emptySlots)
                           IN /\ allocatedSlot' = bestSlot
                              /\ IF bestSlot # Null
                                 THEN \E draws \in PathDraws :
                                         pathsData' = generatePathsToSlot(bestSlot, draws)
                                 ELSE UNCHANGED pathsData
                              /\ currentStep' = 3
                              /\ UNCHANGED error
        /\ UNCHANGED <<parkingImage, vehicleImage, detectedSlots,
                       pathVehicleIntensities, optimalPath, detectionImage,
                       apiKey, reading, fin, fout>>

\* detectVehicleAndAllocate from the answer on
detectVehicleAndAllocateDone ==
    \E p \in pending :
        /\ p.op = "detectVehicleAndAllocate"
        /\ p.response # Waiting
        /\ pending' = pending \ {p}
        /\ isProcessing' = FALSE
        /\ IF ~p.response.ok
           THEN /\ error' = ErrVehicleStatus
                /\ UNCHANGED <<detectedVehicleType, allocatedSlot, pathsData, currentStep>>
           ELSE IF Len(p.response.predictions) = 0
           THEN /\ error' = ErrVehicleNone
                /\ UNCHANGED <<detectedVehicleType, allocatedSlot, pathsData, currentStep>>
           ELSE LET vehicleResult == vehicleResultOf(p.response.predictions)
                    emptySlots == emptySlotsOf(p.detectedSlots)
                IN /\ detectedVehicleType' = vehicleResult
                   /\ IF Len(emptySlots) = 0
                      THEN /\ error' = ErrNoEmptySlots
                           /\ UNCHANGED <<allocatedSlot, pathsData, currentStep>>
                      ELSE LET bestSlot == bestSlotOf(vehicleResult.vehicle_type, emptySlots)
                           IN /\ allocatedSlot' = bestSlot
                              /\ IF bestSlot # Null
                                 THEN \E draws \in PathDraws :
                                         pathsData' = generatePathsToSlot(bestSlot, draws)
                                 ELSE UNCHANGED pathsData
                              /\ currentStep' = 3
                              /\ UNCHANGED error
        /\ UNCHANGED <<parkingImage, vehicleImage, detectedSlots,
                       pathVehicleIntensities, optimalPath, detectionImage,
                       apiKey, reading, fin, fout>>

\* detectPathVehicleIntensities up to its await (a 2000 ms timer); the
\* handler keeps the pathsData of the render it was created in
detectPathVehicleIntensitiesStart ==
    /\ apiKey /\ currentStep = 3 /\ ~isProcessing
    /\ isProcessing' = TRUE
    /\ error' = ""
    /\ pending' = pending \cup {[op |-> "detectPathVehicleIntensities",
                                 pathsData |-> pathsData]}
    /\ UNCHANGED <<currentStep, parkingImage, vehicleImage, detectedSlots,
                   detectedVehicleType, allocatedSlot, pathsData,
                   pathVehicleIntensities, optimalPath,
                   detectionImage, apiKey, reading, fin, fout>>

\* intensities[path.id] = Math.floor(Math.random() * 80) + 10 for every path
simulatedIntensities(paths, draws) ==
    [id \in {paths[k].id : k \in 1..Len(paths)} |->
        draws[CHOOSE k \in 1..Len(paths) : paths[k].id = id] + 10]

\* detectPathVehicleIntensities from the timer on
detectPathVehicleIntensitiesDone ==
    \E p \in pending :
        /\ p.op = "detectPathVehicleIntensities"
        /\ pending' = pending \ {p}
        /\ isProcessing' = FALSE
        /\ \E draws \in IntensityDraws :
              pathVehicleIntensities' = simulatedIntensities(p.pathsData, draws)
        /\ currentStep' = 4
        /\ UNCHANGED <<parkingImage, vehicleImage, detectedSlots,
                       detectedVehicleType, allocatedSlot, pathsData,
                       optimalPath, error, detectionImage,
                       apiKey, reading, fin, fout>>

\* an update that drops the intensities stored before
intensitiesWithout(prev, pathId, value) ==
    [id \in {pathId} |-> parseIntOrZero(value)]

\* setPathVehicleIntensities(prev => ({...prev, [pathId]: parseInt(value) || 0}))
intensitiesWith(prev, pathId, value) ==
    [id \in (DOMAIN prev) \cup {pathId} |->
        IF id = pathId THEN parseIntOrZero(value) ELSE prev[id]]

\* onChange of the intensity field of a path, rendered at step 4
handleVehicleIntensityChange ==
    /\ apiKey /\ currentStep = 4
    /\ \E k \in 1..Len(pathsData), value \in ManualInputs :
          pathVehicleIntensities' =
              intensitiesWith(pathVehicleIntensities, pathsData[k].id, value)
    /\ UNCHANGED <<currentStep, parkingImage, vehicleImage, detectedSlots,
                   detectedVehicleType, allocatedSlot, pathsData,
                   optimalPath, isProcessing, error, detectionImage,
                   apiKey, reading, pending, fin, fout>>

\* the Calculate Optimal Path button, rendered at step 4; reduce without an
\* initial value throws on an empty list, before any state is set
calculateOptimalPath ==
    /\ apiKey /\ currentStep = 4
    /\ IF Len(pathsData) = 0
       THEN UNCHANGED <<optimalPath, currentStep>>
       ELSE /\ optimalPath' =
                  bestPathOf(pathsWithScoresOf(pathsData, pathVehicleIntensities))
            /\ currentStep' = 5
    /\ UNCHANGED <<parkingImage, vehicleImage, detectedSlots,
                   detectedVehicleType, allocatedSlot, pathsData,
                   pathVehicleIntensities, isProcessing, error, detectionImage,
                   apiKey, reading, pending, fin, fout>>

\* a reset that leaves the path intensities in place
resetSystemKeepingIntensities ==
    /\ apiKey /\ currentStep > 1
    /\ currentStep' = 1
    /\ parkingImage' = Null
    /\ vehicleImage' = Null
    /\ detectedSlots' = <<>>
    /\ detectedVehicleType' = Null
    /\ allocatedSlot' = Null
    /\ pathsData' = <<>>
    /\ optimalPath' = Null
    /\ detectionImage' = Null
    /\ error' = ""
    /\ UNCHANGED <<pathVehicleIntensities, isProcessing, apiKey, reading, pending, fin, fout>>

\* a reset that also clears the processing flag
resetSystemClearingProcessing ==
    /\ apiKey /\ currentStep > 1
    /\ currentStep' = 1
    /\ parkingImage' = Null
    /\ vehicleImage' = Null
    /\ detectedSlots' = <<>>
    /\ detectedVehicleType' = Null
    /\ allocatedSlot' = Null
    /\ pathsData' = <<>>
    /\ pathVehicleIntensities' = <<>>
    /\ optimalPath' = Null
    /\ detectionImage' = Null
    /\ error' = ""
    /\ isProcessing' = FALSE
    /\ UNCHANGED <<apiKey, reading, pending, fin, fout>>

\* the Start New Session button, rendered when currentStep > 1
resetSystem ==
    /\ apiKey /\ currentStep > 1
    /\ currentStep' = 1
    /\ parkingImage' = Null
    /\ vehicleImage' = Null
    /\ detectedSlots' = <<>>
    /\ detectedVehicleType' = Null
    /\ allocatedSlot' = Null
    /\ pathsData' = <<>>
    /\ pathVehicleIntensities' = <<>>
    /\ optimalPath' = Null
    /\ detectionImage' = Null
    /\ error' = ""
    /\ UNCHANGED <<isProcessing, apiKey, reading, pending, fin, fout>>

Next ==
    \/ setApiKey
    \/ handleApiKeySubmit
    \/ handleParkingImageUpload
    \/ parkingReaderOnload
    \/ handleVehicleImageUpload
    \/ vehicleReaderOnload
    \/ serviceResponds
    \/ detectParkingSlotsStart
    \/ detectParkingSlotsDone
    \/ detectVehicleAndAllocateStart
    \/ detectVehicleAndAllocateDone
    \/ detectPathVehicleIntensitiesStart
    \/ detectPathVehicleIntensitiesDone
    \/ handleVehicleIntensityChange
    \/ calculateOptimalPath
    \/ resetSystem

Spec == Init /\ [][Next]_vars

\* The detection service answers every call, and a handler whose awaited
\* promise is settled (the answer has arrived, the 2000 ms timer has fired)
\* is resumed by the event loop.
Fairness ==
    /\ WF_vars(serviceResponds)
    /\ WF_vars(detectParkingSlotsDone)
    /\ WF_vars(detectVehicleAndAllocateDone)
    /\ WF_vars(detectPathVehicleIntensitiesDone)

SpecLive == Init /\ [][Next]_vars /\ Fairness

(***************************************************************************)
(* The session with a record of one run.  fout holds the history: the slot *)
(* list, the vehicle detection and the allocated slot of a completed run,  *)
(* and whether the session has been reset since.  The handlers are all the *)
(* handlers of Spec; recording changes no session state.                   *)
(***************************************************************************)
InitRerun ==
    /\ SessionInit
    /\ fin = Null
    /\ fout = Null

\* a run of a car or a truck (the closest and the furthest rule) over a car
\* park of two empty slots at different places, detected in an image of
\* known dimensions, has ended with an allocation: its results are recorded
recordRun ==
    /\ fout = Null
    /\ currentStep = 3
    /\ pending = {}
    /\ allocatedSlot # Null
    /\ detectedVehicleType # Null
    /\ detectedVehicleType.vehicle_type \in {"car", "truck"}
    /\ detectionImage # Null
    /\ Len(detectedSlots) = 2
    /\ \A i \in 1..2 : detectedSlots[i].status = "empty"
    /\ detectedSlots[1].x # detectedSlots[2].x
    /\ fout' = [detectedSlots |-> detectedSlots,
                detectedVehicleType |-> detectedVehicleType,
                allocatedSlot |-> allocatedSlot,
                reset |-> FALSE]
    /\ UNCHANGED <<sessionVars, fin>>

\* the session has been reset after the recorded run
recordReset ==
    /\ fout # Null
    /\ ~fout.reset
    /\ currentStep = 1
    /\ detectedSlots = <<>>
    /\ fout' = [fout EXCEPT !.reset = TRUE]
    /\ UNCHANGED <<sessionVars, fin>>

NextRerun ==
    \/ setApiKey
    \/ handleApiKeySubmit
    \/ handleParkingImageUpload
    \/ parkingReaderOnload
    \/ handleVehicleImageUpload
    \/ vehicleReaderOnload
    \/ serviceResponds
    \/ detectParkingSlotsStart
    \/ detectParkingSlotsDone
    \/ detectVehicleAndAllocateStart
    \/ detectVehicleAndAllocateDone
    \/ detectPathVehicleIntensitiesStart
    \/ detectPathVehicleIntensitiesDone
    \/ handleVehicleIntensityChange
    \/ calculateOptimalPath
    \/ resetSystem
    \/ recordRun
    \/ recordReset

SpecRerun == InitRerun /\ [][NextRerun]_vars

(***************************************************************************)
(* Slot normalisation and allocation as functions: the input is a          *)
(* detection batch, the first step is roboflowAPI.detectParkingSlots on    *)
(* it, the second the allocation of detectVehicleAndAllocate on the slots. *)
(***************************************************************************)
MaxDetections == 3

\* detections around the row threshold (y differences of 40 and 80):
\* (10,0), (5,40), (0,80) are chained in a cycle, (2,0), (5,40), (8,80) are
\* chained in increasing x, and (10,0), (10,40) are level (the comparator
\* gives 0 for them)
FreeDetections ==
    {Prediction(2, 0, ClassOccupied, 90), Prediction(10, 0, ClassEmpty, 90),
     Prediction(5, 40, ClassEmpty, 90), Prediction(10, 40, ClassOccupied, 90),
     Prediction(0, 80, ClassOccupied, 90), Prediction(8, 80, ClassEmpty, 90)}

FreeBatches ==
    {[predictions |-> b, image |-> Null] :
        b \in SeqsUpTo(FreeDetections, MaxDetections) \ {<<>>}}

MaxLatticeSlots == 17
MaxEmpty == 2

\* detection i (0-based, row-major) of a regular car park: rows of 8 bays,
\* 100 pixels apart in both directions
LatticePrediction(i, empties) ==
    Prediction(50 + 100 * (i % 8), 50 + 100 * (i \div 8),
               IF i \in empties THEN ClassEmpty ELSE ClassOccupied, 90)

\* the service lists the detections in row-major order or in the reverse order
LatticeBatch(n, empties, reversed) ==
    [k \in 1..n |-> LatticePrediction(IF reversed THEN n - k ELSE k - 1, empties)]

\* (the response carries the image dimensions; FreeBatches carry none)
LatticeBatches ==
    {[predictions |-> LatticeBatch(n, empties, reversed), image |-> ImageData] :
        n \in 1..MaxLatticeSlots,
        empties \in {E \in SUBSET (0..(MaxLatticeSlots - 1)) : Cardinality(E) <= MaxEmpty},
        reversed \in BOOLEAN}

\* Batches of MinMerge detections and more, which the sort cuts into
\* several runs that it merges.
MaxLargeSlots == 66

\* detection k of a batch of n.  Chained: on 15 places, x in {0, 4, 8} and
\* y in {0, 40, 80, 120, 160}, which are chained over the row threshold.
\* Otherwise a bay of the regular car park, which the service lists out of
\* order: bay (k * stride) mod n.
LargePrediction(k, n, stride, chained) ==
    IF chained
    THEN LET place == (k * stride) % 15
         IN Prediction(4 * (place % 3), 40 * (place \div 3),
                       IF k % 3 = 0 THEN ClassEmpty ELSE ClassOccupied, 90)
    ELSE LatticePrediction((k * stride) % n, {i \in 0..(n - 1) : i % 3 = 0})

LargeBatches ==
    {[predictions |-> [k \in 1..n |-> LargePrediction(k, n, stride, chained)],
      image |-> IF chained THEN Null ELSE ImageData] :
        n \in MinMerge..MaxLargeSlots, stride \in {37, 41},
        chained \in BOOLEAN}

VehicleTypes == {"car", "truck", "bus", "motorcycle", "van"}

InitSlots ==
    /\ SessionInit
    /\ fin \in FreeBatches \cup LatticeBatches \cup LargeBatches
    /\ fout = Null

\* roboflowAPI.detectParkingSlots on a response with predictions
normalizeSlots ==
    /\ fout = Null
    /\ LET sortedSlots == sortSlotsSpatiallly(fin.predictions)
       IN fout' = [phase |-> "normalized",
                   sortedSlots |-> sortedSlots,
                   result |-> parkingResult(sortedSlots, fin.image)]
    /\ UNCHANGED <<sessionVars, fin>>

\* sortSlotsSpatiallly applied to the list it has sorted
sortAgain ==
    /\ fout # Null
    /\ fout.phase = "normalized"
    /\ LET sortedAgain == sortSlotsSpatiallly(fout.sortedSlots)
       IN fout' = [phase |-> "resorted",
                   sortedSlots |-> fout.sortedSlots,
                   result |-> fout.result,
                   sortedAgain |-> sortedAgain]
    /\ UNCHANGED <<sessionVars, fin>>

\* the allocation of detectVehicleAndAllocate for a detected vehicle type
allocateSlot ==
    /\ fout # Null
    /\ fout.phase = "normalized"
    /\ Len(emptySlotsOf(fout.result.slots)) > 0
    /\ \E vehicleType \in VehicleTypes :
          fout' = [phase |-> "allocated",
                   sortedSlots |-> fout.sortedSlots,
                   result |-> fout.result,
                   vehicleType |-> vehicleType,
                   bestSlot |-> bestSlotOf(vehicleType,
                                           emptySlotsOf(fout.result.slots))]
    /\ UNCHANGED <<sessionVars, fin>>

NextSlots == normalizeSlots \/ sortAgain \/ allocateSlot

SpecSlots == InitSlots /\ [][NextSlots]_vars

(***************************************************************************)
(* Path scoring as a function.                                             *)
(***************************************************************************)
MaxPaths == 3

\* distance (in eighths when it has a fourth part: 579 is 72.375),
\* tJunctions and stored intensity (-1: none stored) of a path
\* ((65, 1, 14) and (95, 2, 2) have the same exact score, 11.3, and scores
\* that differ in the last bit)
PathShapes ==
    {<<65, 1, 20>>, <<90, 3, 60>>, <<65, 2, 18>>, <<80, 1, -1>>,
     <<65, 1, 14>>, <<95, 2, 2>>, <<579, 1, 14, 8>>}

distanceOfShape(shape) ==
    IF Len(shape) = 4 THEN numberOf(shape[1], shape[4]) ELSE numberOfInt(shape[1])

pathsOfShapes(shapes) ==
    [k \in 1..Len(shapes) |->
        [id |-> k, name |-> pathName(k), distance |-> distanceOfShape(shapes[k]),
         tJunctions |-> shapes[k][2], vehicleIntensity |-> Null, score |-> Null]]

intensitiesOfShapes(shapes) ==
    [id \in {k \in 1..Len(shapes) : shapes[k][3] >= 0} |-> shapes[id][3]]

InitPaths ==
    /\ SessionInit
    /\ \E shapes \in SeqsUpTo(PathShapes, MaxPaths) \ {<<>>} :
          fin = [pathsData |-> pathsOfShapes(shapes),
                 pathVehicleIntensities |-> intensitiesOfShapes(shapes)]
    /\ fout = Null

\* calculateOptimalPath on a non-empty path list
scorePaths ==
    /\ fout = Null
    /\ LET pathsWithScores == pathsWithScoresOf(fin.pathsData, fin.pathVehicleIntensities)
       IN fout' = [pathsWithScores |-> pathsWithScores,
                   optimalPath |-> bestPathOf(pathsWithScores)]
    /\ UNCHANGED <<sessionVars, fin>>

\* the All Paths Comparison view, rendered at step 5 over pathsData,
\* pathVehicleIntensities and optimalPath: a score and the OPTIMAL mark per path
renderAllPathsComparison ==
    /\ fout # Null
    /\ DOMAIN fout = {"pathsWithScores", "optimalPath"}
    /\ fout' = [pathsWithScores |-> fout.pathsWithScores,
                optimalPath |-> fout.optimalPath,
                comparison |->
                    [k \in 1..Len(fin.pathsData) |->
                        LET path == fin.pathsData[k]
                            intensity == intensityOf(fin.pathVehicleIntensities, path.id)
                        IN [id |-> path.id,
                            score |-> displayScoreOf(path, intensity),
                            isOptimal |-> path.id = fout.optimalPath.id]]]
    /\ UNCHANGED <<sessionVars, fin>>

NextPaths == scorePaths \/ renderAllPathsComparison

SpecPaths == InitPaths /\ [][NextPaths]_vars

(***************************************************************************)
(* Vehicle classification as a function.                                   *)
(***************************************************************************)
LabelWords ==
    {classMapping[k].key : k \in 1..Len(classMapping)}
    \cup {<<"T","R","U","C","K">>, <<"P","i","c","k","u","p"," ">>,
          <<"S","c","o","o","t","e","r">>, <<"-","X","1">>,
          <<"G","o","l","f"," ">>, <<"C","a","r","t">>, <<"T","r","a","m">>,
          <<"T","r","u","c","k">>, <<"M","i","n","i">>, <<"B","u">>, <<"s">>, <<>>}

Labels == {w1 \o w2 : w1 \in LabelWords, w2 \in LabelWords}

InitLabels ==
    /\ SessionInit
    /\ fin \in {[label |-> l] : l \in Labels}
    /\ fout = Null

classifyLabel ==
    /\ fout = Null
    /\ fout' = [vehicle_type |-> mapClassToVehicleType(fin.label)]
    /\ UNCHANGED <<sessionVars, fin>>

NextLabels == classifyLabel

SpecLabels == InitLabels /\ [][NextLabels]_vars

(***************************************************************************)
(* Corner and edge classification as a function: the input is a batch size *)
(* and a position of the sorted list, the step is the map callback of      *)
(* roboflowAPI.detectParkingSlots on the detection at that position.       *)
(***************************************************************************)
MaxGridSlots == 24

InitGrid ==
    /\ SessionInit
    /\ fin \in {[totalSlots |-> n, index |-> i] :
                   n \in 1..MaxGridSlots, i \in 0..(MaxGridSlots - 1)}
    /\ fin.index < fin.totalSlots
    /\ fout = Null

classifySlot ==
    /\ fout = Null
    /\ fout' = [slot |-> slotOf(LatticePrediction(fin.index, {}), fin.index,
                                fin.totalSlots, ImageData)]
    /\ UNCHANGED <<sessionVars, fin>>

NextGrid == classifySlot

SpecGrid == InitGrid /\ [][NextGrid]_vars

(***************************************************************************)
(* Vehicle detection as a function: the input is the prediction list of a  *)
(* successful answer, the step is roboflowAPI.detectVehicleType on it.     *)
(***************************************************************************)
MaxVehicleList == 3

\* predictions with a shared maximum confidence, classes of different
\* categories and boxes of their own
FreeVehicles ==
    SessionVehicles
    \cup {[x |-> 120, y |-> 80, width |-> 200, height |-> 90,
           confidence |-> 95, class |-> LabelGolfCart],
          [x |-> 500, y |-> 310, width |-> 64, height |-> 48,
           confidence |-> 95, class |-> LabelScooterX1]}

InitVehicles ==
    /\ SessionInit
    /\ fin \in {[predictions |-> b] :
                   b \in SeqsUpTo(FreeVehicles, MaxVehicleList) \ {<<>>}}
    /\ fout = Null

\* roboflowAPI.detectVehicleType on an answer with predictions
detectVehicleType ==
    /\ fout = Null
    /\ fout' = [result |-> vehicleResultOf(fin.predictions)]
    /\ UNCHANGED <<sessionVars, fin>>

NextVehicles == detectVehicleType

SpecVehicles == InitVehicles /\ [][NextVehicles]_vars

(***************************************************************************)
(* Path generation as a function: the input is an allocated slot, the step *)
(* is generatePathsToSlot on it.                                           *)
(***************************************************************************)
MaxRouteSlots == 24

\* outcomes of the Math.random() calls of one generatePathsToSlot call: the
\* ends and an inner point (0.35) of the range of Math.random(), both values
\* of extra
RouteDraws ==
    [1..4 -> [random : RandomOutcomes, extra : {0, 1}]]

InitRoutes ==
    /\ SessionInit
    /\ fin \in {[slot |-> slotOf(LatticePrediction(i, {i}), i, MaxRouteSlots, ImageData)] :
                   i \in 0..(MaxRouteSlots - 1)}
    /\ fout = Null

generatePaths ==
    /\ fout = Null
    /\ \E draws \in RouteDraws :
          fout' = [paths |-> generatePathsToSlot(fin.slot, draws)]
    /\ UNCHANGED <<sessionVars, fin>>

NextRoutes == generatePaths

SpecRoutes == InitRoutes /\ [][NextRoutes]_vars

(***************************************************************************)
(* Claims on slot allocation (SpecSlots).                                  *)
(***************************************************************************)
Allocated == fout # Null /\ fout.phase = "allocated"

\* position k of list holds the first slot among those of minimum (sign = 1)
\* or maximum (sign = -1) distance_from_entrance
FirstExtremeAt(list, k, sign) ==
    /\ \A j \in 1..Len(list) :
          sign * list[j].distance_from_entrance >= sign * list[k].distance_from_entrance
    /\ \A j \in 1..(k - 1) :
          sign * list[j].distance_from_entrance > sign * list[k].distance_from_entrance

\* C1: for category car the allocated slot is the empty slot of minimum
\* distance_from_entrance, the first one in list order when several share it.
C1_CarClosestFirst ==
    (Allocated /\ fout.vehicleType = "car") =>
        LET emptySlots == SelectSeq(fout.result.slots, LAMBDA z : z.status = "empty")
        IN \E k \in 1..Len(emptySlots) :
              /\ fout.bestSlot = emptySlots[k]
              /\ FirstExtremeAt(emptySlots, k, 1)

\* a car was allocated where two empty slots share the minimum distance
C1_Witness ==
    /\ Allocated /\ fout.vehicleType = "car"
    /\ \E z \in {fout.result.slots[i] : i \in 1..Len(fout.result.slots)} :
          /\ z.status = "empty"
          /\ z # fout.bestSlot
          /\ z.distance_from_entrance = fout.bestSlot.distance_from_entrance

\* C2: for category motorcycle the allocated slot is the empty slot of maximum
\* distance_from_entrance, the first one in list order when several share it.
C2_MotorcycleFurthestFirst ==
    (Allocated /\ fout.vehicleType = "motorcycle") =>
        LET emptySlots == SelectSeq(fout.result.slots, LAMBDA z : z.status = "empty")
        IN \E k \in 1..Len(emptySlots) :
              /\ fout.bestSlot = emptySlots[k]
              /\ FirstExtremeAt(emptySlots, k, -1)

\* a motorcycle was allocated where two empty slots share the maximum distance
C2_Witness ==
    /\ Allocated /\ fout.vehicleType = "motorcycle"
    /\ \E z \in {fout.result.slots[i] : i \in 1..Len(fout.result.slots)} :
          /\ z.status = "empty"
          /\ z # fout.bestSlot
          /\ z.distance_from_entrance = fout.bestSlot.distance_from_entrance

\* C3: for truck, bus and van the allocated slot is the first slot of maximum
\* distance among the corner or edge empty slots when there is one, and the
\* first empty slot (the one of lowest slot_number) when there is none.
C3_CornerEdgeOrFirst ==
    (Allocated /\ fout.vehicleType \in {"truck", "bus", "van"}) =>
        LET emptySlots == SelectSeq(fout.result.slots, LAMBDA z : z.status = "empty")
            cornerEdge == SelectSeq(emptySlots, LAMBDA z : z.is_corner \/ z.is_edge)
        IN IF cornerEdge # <<>>
           THEN \E k \in 1..Len(cornerEdge) :
                   /\ fout.bestSlot = cornerEdge[k]
                   /\ FirstExtremeAt(cornerEdge, k, -1)
           ELSE /\ fout.bestSlot = emptySlots[1]
                /\ \A j \in 1..Len(emptySlots) :
                      fout.bestSlot.slot_number <= emptySlots[j].slot_number

\* a van was allocated by the fallback: two empty slots, none corner or edge,
\* the second further from the entrance than the first
C3_Witness ==
    /\ Allocated /\ fout.vehicleType = "van"
    /\ LET emptySlots == SelectSeq(fout.result.slots, LAMBDA z : z.status = "empty")
       IN /\ Len(emptySlots) = 2
          /\ \A j \in 1..2 : ~emptySlots[j].is_corner /\ ~emptySlots[j].is_edge
          /\ emptySlots[2].distance_from_entrance > emptySlots[1].distance_from_entrance
          /\ fout.bestSlot = emptySlots[1]

(***************************************************************************)
(* Claims on slot normalisation (SpecSlots).                               *)
(***************************************************************************)
Normalized == fout # Null

\* C7: the slots of a batch of N detections carry the slot numbers 1..N
\* without duplicates, in the order of the sorted list, and each slot has
\* row = (slot_number - 1) div 8 and col = (slot_number - 1) mod 8.
C7_SlotNumbering ==
    Normalized =>
        LET slots == fout.result.slots
            N == Len(fin.predictions)
        IN /\ N >= 1
           /\ Len(slots) = N
           /\ {slots[i].slot_number : i \in 1..N} = 1..N
           /\ \A i \in 1..N, j \in 1..N :
                 slots[i].slot_number = slots[j].slot_number => i = j
           /\ \A i \in 1..N :
                 /\ slots[i].slot_number = i
                 /\ slots[i].x = fout.sortedSlots[i].x
                 /\ slots[i].y = fout.sortedSlots[i].y
                 /\ slots[i].original_class = fout.sortedSlots[i].class
                 /\ slots[i].row = (slots[i].slot_number - 1) \div 8
                 /\ slots[i].col = (slots[i].slot_number - 1) % 8

\* a batch of 17 detections listed bottom row first was normalised: slot 1
\* is the detection listed last, slot 8 closes row 0, slot 17 opens row 2
C7_Witness ==
    /\ Normalized
    /\ Len(fout.result.slots) = 17
    /\ fin.predictions[1].y > fin.predictions[17].y
    /\ fout.result.slots[1].y = fin.predictions[17].y
    /\ fout.result.slots[8].row = 0 /\ fout.result.slots[8].col = 7
    /\ fout.result.slots[17].row = 2 /\ fout.result.slots[17].col = 0

\* a is allowed before b: ascending x within a row, ascending y across rows
C8_InOrder(a, b) ==
    IF Abs(a.y - b.y) < 50 THEN a.x <= b.x ELSE a.y < b.y

C8_PairwiseOrdered(sorted) ==
    \A i \in 1..Len(sorted), j \in 1..Len(sorted) :
        i < j => C8_InOrder(sorted[i], sorted[j])

\* C8 as claimed: in the sorted list of every batch, every earlier detection
\* a and later detection b have a.x <= b.x when |a.y - b.y| < 50 and
\* a.y < b.y otherwise.
C8_Original ==
    Normalized => C8_PairwiseOrdered(fout.sortedSlots)

C8_Before(a, b) == IF Abs(a.y - b.y) < 50 THEN a.x < b.x ELSE a.y < b.y

C8_Level(a, b) == Abs(a.y - b.y) < 50 /\ a.x = b.x

\* the row rule orders the batch: strictly-before and same-position are
\* transitive on its detections
C8_Orderable(batch) ==
    LET S == {batch[i] : i \in 1..Len(batch)}
    IN \A a \in S, b \in S, c \in S :
          /\ (C8_Before(a, b) /\ C8_Before(b, c)) => C8_Before(a, c)
          /\ (C8_Level(a, b) /\ C8_Level(b, c)) => C8_Level(a, c)

\* C8 (amended): the pairwise order holds in the sorted list of every batch
\* that the row rule orders; a batch chained over the threshold in a cycle
\* has no such order.
C8_OrderedWhenOrderable ==
    Normalized =>
        (C8_PairwiseOrdered(fout.sortedSlots) \/ ~C8_Orderable(fin.predictions))

\* a batch chained over the threshold (y = 0, 40, 80) that the row rule still
\* orders was sorted, and the sort moved its detections
C8_Witness ==
    /\ Normalized
    /\ Len(fin.predictions) = 3
    /\ {fin.predictions[i].y : i \in 1..3} = {0, 40, 80}
    /\ C8_Orderable(fin.predictions)
    /\ fout.sortedSlots # fin.predictions
    /\ C8_PairwiseOrdered(fout.sortedSlots)

(***************************************************************************)
(* Claims on the session (Spec).                                           *)
(***************************************************************************)
\* C4: when the vehicle detection succeeds and none of the detected slots
\* the handler allocates from is empty, the handler ends with the 'No empty
\* slots available' message and selects nothing: allocatedSlot was and stays
\* unset, no path is generated and the step does not become 3.
C4_NoEmptySlotsNoAllocation ==
    [][\A p \in pending :
          (/\ p.op = "detectVehicleAndAllocate"
           /\ p.response # Waiting
           /\ p.response.ok
           /\ Len(p.response.predictions) > 0
           /\ \A i \in 1..Len(p.detectedSlots) : p.detectedSlots[i].status # "empty"
           /\ p \notin pending')
          => (/\ error' = "No empty slots available"
              /\ allocatedSlot = Null
              /\ allocatedSlot' = Null
              /\ pathsData' = <<>>
              /\ currentStep' # 3
              /\ currentStep' = currentStep)]_vars

\* a vehicle was detected over a car park without an empty slot
C4_Witness ==
    /\ error = "No empty slots available"
    /\ currentStep = 2
    /\ detectedSlots # <<>>
    /\ detectedVehicleType # Null
    /\ allocatedSlot = Null
    /\ pathsData = <<>>
    /\ ~isProcessing

\* C10: a reset (the only step that lowers the current step) leaves the
\* session at step 1 with no detected slots, no vehicle detection, no
\* allocated slot, no paths, no path intensities, no optimal path and an
\* empty error message.
C10_ResetClears ==
    [][currentStep' < currentStep =>
          (/\ currentStep' = 1
           /\ detectedSlots' = <<>>
           /\ detectedVehicleType' = Null
           /\ allocatedSlot' = Null
           /\ pathsData' = <<>>
           /\ DOMAIN pathVehicleIntensities' = {}
           /\ optimalPath' = Null
           /\ error' = "")]_vars

\* the session was reset at step 3 or later while a path analysis was
\* running: step 1, everything cleared, the analysis still suspended
C10_Witness ==
    /\ currentStep = 1
    /\ \E p \in pending : p.op = "detectPathVehicleIntensities" /\ p.pathsData # <<>>
    /\ detectedSlots = <<>>
    /\ detectedVehicleType = Null
    /\ allocatedSlot = Null
    /\ pathsData = <<>>
    /\ DOMAIN pathVehicleIntensities = {}
    /\ optimalPath = Null
    /\ error = ""

(***************************************************************************)
(* Claims on path scoring (SpecPaths).                                     *)
(***************************************************************************)
Scored == fout # Null

\* the intensity calculateOptimalPath reads for a path: the stored one, or 0
C5_Intensity(id) ==
    IF id \in DOMAIN fin.pathVehicleIntensities
    THEN fin.pathVehicleIntensities[id] ELSE 0

\* ten times the rounding error a score can carry, in units of 2^-60
C5_Tolerance == natOfInt(2^24)

\* ten times the exact value of distance*0.1 + tJunctions*0.6 +
\* intensity*0.3, in units of 2^-60: distance + 6*tJunctions + 3*intensity
C5_Tenths(distance, tJunctions, intensity) ==
    natPlus(distance, natTimes(NumberOne, (6 * tJunctions) + (3 * intensity)))

\* the number score is at most the exact value tenths/10, up to rounding
C5_AtMost(score, tenths) ==
    natCompare(natTimes(score, 10), natPlus(tenths, C5_Tolerance)) <= 0

\* the number score is at least the exact value tenths/10, up to rounding
C5_AtLeast(score, tenths) ==
    natCompare(tenths, natPlus(natTimes(score, 10), C5_Tolerance)) <= 0

\* C5: every path gets the score distance*0.1 + t_junctions*0.6 +
\* vehicle_intensity*0.3 (the double this expression evaluates to, which is
\* the exact value up to rounding), and the optimal path is a path of minimum
\* score, the earliest in the list when several have that score.
C5_ScoreAndFirstMinimum ==
    Scored =>
        LET P == fin.pathsData
            S == fout.pathsWithScores
        IN /\ Len(S) = Len(P)
           /\ \A k \in 1..Len(P) :
                 LET tenths == C5_Tenths(P[k].distance, P[k].tJunctions,
                                         C5_Intensity(P[k].id))
                 IN /\ S[k].id = P[k].id
                    /\ S[k].vehicleIntensity = C5_Intensity(P[k].id)
                    /\ C5_AtMost(S[k].score, tenths)
                    /\ C5_AtLeast(S[k].score, tenths)
           /\ \E m \in 1..Len(S) :
                 /\ fout.optimalPath = S[m]
                 /\ \A j \in 1..Len(S) : natCompare(S[j].score, S[m].score) >= 0
                 /\ \A j \in 1..(m - 1) : natCompare(S[j].score, S[m].score) > 0

\* three paths were scored, the second and the third share the minimum
\* score and the second was chosen
C5_Witness ==
    /\ Scored
    /\ Len(fout.pathsWithScores) = 3
    /\ natCompare(fout.pathsWithScores[1].score, fout.pathsWithScores[2].score) > 0
    /\ fout.pathsWithScores[3].score = fout.pathsWithScores[2].score
    /\ fout.optimalPath.id = 2

\* the two paths of the example: (65, 1, 20) and (90, 3, 60)
C6_Input ==
    [pathsData |-> pathsOfShapes(<< <<65, 1, 20>>, <<90, 3, 60>> >>),
     pathVehicleIntensities |-> <<20, 60>>]

\* C6 as claimed: the example scores 68.6 and 46.8 and the second path is
\* selected.
C6_Original ==
    (Scored /\ fin = C6_Input) =>
        /\ fout.pathsWithScores[1].score = numberOf(686, 10)
        /\ fout.pathsWithScores[2].score = numberOf(468, 10)
        /\ fout.optimalPath.id = 2

\* C6 (amended): the example scores 13.1 and 28.8 and the first path is
\* selected.
C6_ExampleScores ==
    (Scored /\ fin = C6_Input) =>
        /\ fout.pathsWithScores[1].score = numberOf(131, 10)
        /\ fout.pathsWithScores[2].score = numberOf(288, 10)
        /\ fout.optimalPath.id = 1
        /\ fout.optimalPath.distance = numberOfInt(65)

\* the example was scored
C6_Witness ==
    /\ Scored
    /\ fin = C6_Input
    /\ Len(fout.pathsWithScores) = 2

(***************************************************************************)
(* Claims on vehicle classification (SpecLabels).                          *)
(***************************************************************************)
Classified == fout # Null

\* the table of the specification: key and category, in table order
C9_Table ==
    << << <<"c","a","r">>, "car" >>,
       << <<"s","e","d","a","n">>, "car" >>,
       << <<"h","a","t","c","h","b","a","c","k">>, "car" >>,
       << <<"s","u","v">>, "car" >>,
       << <<"t","r","u","c","k">>, "truck" >>,
       << <<"p","i","c","k","u","p">>, "truck" >>,
       << <<"b","u","s">>, "bus" >>,
       << <<"m","o","t","o","r","c","y","c","l","e">>, "motorcycle" >>,
       << <<"m","o","t","o","r","b","i","k","e">>, "motorcycle" >>,
       << <<"b","i","k","e">>, "motorcycle" >>,
       << <<"s","c","o","o","t","e","r">>, "motorcycle" >>,
       << <<"v","a","n">>, "van" >>,
       << <<"m","i","n","i","v","a","n">>, "van" >> >>

\* the table positions whose key occurs in the lower-cased label
C9_Matches(label) ==
    {k \in 1..Len(C9_Table) : includes(toLowerCase(label), C9_Table[k][1])}

C9_Expected(label) ==
    IF C9_Matches(label) = {} THEN "car"
    ELSE C9_Table[CHOOSE k \in C9_Matches(label) :
                      \A j \in C9_Matches(label) : k <= j][2]

C9_General ==
    /\ fout.vehicle_type = C9_Expected(fin.label)
    /\ fout.vehicle_type \in {"car", "truck", "bus", "motorcycle", "van"}
    /\ fin.label = LabelPickupTruck => fout.vehicle_type = "truck"
    /\ fin.label = LabelScooterX1 => fout.vehicle_type = "motorcycle"

\* C9 as claimed: the result is the category of the first key in table order
\* that occurs in the lower-cased label, car when none occurs; 'Pickup Truck'
\* gives truck, 'Scooter-X1' gives motorcycle, and 'Golf Cart' is an
\* unmatched label that gives the default car.
C9_Original ==
    Classified =>
        /\ C9_General
        /\ fin.label = LabelGolfCart =>
              (C9_Matches(fin.label) = {} /\ fout.vehicle_type = "car")

\* C9 (amended): as claimed, except that 'Golf Cart' gives car because the
\* key car occurs in 'golf cart'; a label in which no key occurs ('Tram')
\* gives the default car.
C9_FirstKeyInTableOrder ==
    Classified =>
        /\ C9_General
        /\ fin.label = LabelGolfCart =>
              (1 \in C9_Matches(fin.label) /\ fout.vehicle_type = "car")
        /\ fin.label = <<"T","r","a","m">> =>
              (C9_Matches(fin.label) = {} /\ fout.vehicle_type = "car")

\* 'Golf Cart' was classified
C9_Witness ==
    /\ Classified
    /\ fin.label = LabelGolfCart
    /\ fout.vehicle_type = "car"

(***************************************************************************)
(* Claims on failing steps (Spec).                                         *)
(***************************************************************************)
\* the answer held by the suspended handler p is a detection failure: a
\* non-success status or zero predictions
C12_DetectionFailure(p) ==
    /\ p.op \in {"detectParkingSlots", "detectVehicleAndAllocate"}
    /\ p.response # Waiting
    /\ (~p.response.ok \/ Len(p.response.predictions) = 0)

\* the handler p ends as a failed step: a detection failure, or a vehicle
\* detection over a slot list without an empty slot
C11_Fails(p) ==
    \/ C12_DetectionFailure(p)
    \/ /\ p.op = "detectVehicleAndAllocate"
       /\ p.response # Waiting
       /\ \A i \in 1..Len(p.detectedSlots) : p.detectedSlots[i].status # "empty"

\* C11: a step that fails (detectParkingSlots or detectVehicleAndAllocate
\* ending with a detection failure or with 'no empty slots') commits nothing:
\* detected slots, vehicle detection, allocated slot, path list, path
\* intensities, optimal path and current step keep their values, and only the
\* error message and the processing flag differ.
C11_NoPartialState ==
    [][\A p \in pending :
          (C11_Fails(p) /\ p \notin pending')
          => (/\ detectedSlots' = detectedSlots
              /\ detectedVehicleType' = detectedVehicleType
              /\ allocatedSlot' = allocatedSlot
              /\ pathsData' = pathsData
              /\ pathVehicleIntensities' = pathVehicleIntensities
              /\ optimalPath' = optimalPath
              /\ currentStep' = currentStep)]_vars

\* C12 as claimed: a detection that is answered with a non-success status or
\* with zero predictions ends with an error message and no result; the slot
\* detection leaves the slot list as it was and the step at 1, the vehicle
\* detection records no vehicle type, allocates no slot and leaves the step
\* at 2.
C12_Original ==
    [][\A p \in pending :
          (C12_DetectionFailure(p) /\ p \notin pending')
          => (/\ error' # ""
              /\ p.op = "detectParkingSlots" =>
                    (/\ detectedSlots' = detectedSlots
                     /\ currentStep = 1 /\ currentStep' = 1)
              /\ p.op = "detectVehicleAndAllocate" =>
                    (/\ detectedVehicleType' = detectedVehicleType
                     /\ allocatedSlot' = Null
                     /\ currentStep = 2 /\ currentStep' = 2))]_vars

\* C12 (amended): as claimed, except that the vehicle detection leaves the
\* step where it is: at 2, or at 1 when the session was reset while the
\* detection was running.
C12_FailureIsAnError ==
    [][\A p \in pending :
          (C12_DetectionFailure(p) /\ p \notin pending')
          => (/\ error' # ""
              /\ p.op = "detectParkingSlots" =>
                    (/\ detectedSlots' = detectedSlots
                     /\ currentStep = 1 /\ currentStep' = 1)
              /\ p.op = "detectVehicleAndAllocate" =>
                    (/\ detectedVehicleType' = detectedVehicleType
                     /\ allocatedSlot' = Null
                     /\ currentStep \in {1, 2} /\ currentStep' = currentStep))]_vars

\* a vehicle detection answered with zero predictions has ended at step 2:
\* the message is set, the slots of step 1 are in place, nothing is allocated
C12_Witness ==
    /\ error = ErrVehicleNone
    /\ currentStep = 2
    /\ ~isProcessing
    /\ detectedSlots # <<>>
    /\ detectedVehicleType = Null
    /\ allocatedSlot = Null

(***************************************************************************)
(* Claims on manual intensities (Spec).                                    *)
(***************************************************************************)
\* the number score is the exact value tenths/10, up to rounding
C13_ScoreIs(score, tenths) == C5_AtMost(score, tenths) /\ C5_AtLeast(score, tenths)

\* the values the texts of ManualInputs are stored as; none of them is a
\* value the simulation produces (10..89), so a stored manual value is
\* recognisable in the state
C13_ManualValues == {parseIntOrZero(value) : value \in ManualInputs}

\* C13: within a session (no reset), a path that holds a manually entered
\* intensity keeps it in every later state unless another one is entered for
\* it by hand (no asynchronous handler ends in that step), so no simulated
\* value replaces it, and calculateOptimalPath scores every path with the
\* stored intensity: the optimal path carries its stored intensity, its score
\* is computed from it, and no path has a lower score under the stored ones.
C13_ManualPrecedence ==
    [][/\ \A id \in DOMAIN pathVehicleIntensities :
             (/\ pathVehicleIntensities[id] \in C13_ManualValues
              /\ ~(currentStep' < currentStep))
             => (/\ id \in DOMAIN pathVehicleIntensities'
                 /\ \/ pathVehicleIntensities'[id] = pathVehicleIntensities[id]
                    \/ /\ pathVehicleIntensities'[id] \in C13_ManualValues
                       /\ currentStep = 4 /\ currentStep' = 4
                       /\ pending' = pending)
       /\ (optimalPath' # optimalPath /\ optimalPath' # Null)
             => (/\ optimalPath'.id \in DOMAIN pathVehicleIntensities
                 /\ optimalPath'.vehicleIntensity =
                       pathVehicleIntensities[optimalPath'.id]
                 /\ C13_ScoreIs(optimalPath'.score,
                       C5_Tenths(optimalPath'.distance, optimalPath'.tJunctions,
                                 pathVehicleIntensities[optimalPath'.id]))
                 /\ \A k \in 1..Len(pathsData) :
                       C5_AtMost(optimalPath'.score,
                          C5_Tenths(pathsData[k].distance, pathsData[k].tJunctions,
                                    pathVehicleIntensities[pathsData[k].id])))]_vars

\* the optimal path was calculated over paths of which one holds a manually
\* entered intensity and another a simulated one
C13_Witness ==
    /\ currentStep = 5
    /\ optimalPath # Null
    /\ C13_ManualValues \cap (10..89) = {}
    /\ \E id \in DOMAIN pathVehicleIntensities :
          pathVehicleIntensities[id] \in C13_ManualValues
    /\ \E id \in DOMAIN pathVehicleIntensities :
          pathVehicleIntensities[id] \in 10..89
    /\ optimalPath.vehicleIntensity = pathVehicleIntensities[optimalPath.id]

(***************************************************************************)
(* Claims on sorting twice (SpecSlots).                                    *)
(***************************************************************************)
Resorted == fout # Null /\ fout.phase = "resorted"

\* C15: for every batch, sortSlotsSpatiallly applied to the list it has
\* sorted leaves every detection at its position, so that the slot numbers
\* (position + 1) are the same after the second sort; this includes the
\* batches chained over the row threshold in a cycle, which the row rule
\* does not order, and the batches with level detections.
C15_SortTwiceSame ==
    Resorted =>
        /\ fout.sortedAgain = fout.sortedSlots
        /\ parkingResult(fout.sortedAgain, fin.image).slots = fout.result.slots

\* the order the sort would leave if it made the whole array one run
C15_OneRunSort(a) ==
    LET made == countAndMakeRun(a)
    IN binaryInsertionSort(made.array, made.length + 1)

\* a batch of MinMerge detections or more that the row rule does not order
\* was sorted in several runs, whose merge left another order than one run
\* would have, and sorted again
C15_MergedWitness ==
    /\ Resorted
    /\ Len(fin.predictions) >= MinMerge
    /\ ~C8_Orderable(fin.predictions)
    /\ fout.sortedSlots # fin.predictions
    /\ fout.sortedSlots # C15_OneRunSort(fin.predictions)
    /\ fout.sortedAgain = fout.sortedSlots

\* a batch of three detections chained over the threshold in a cycle, which
\* the row rule does not order, was sorted, which moved detections, and
\* sorted again
C15_Witness ==
    /\ Resorted
    /\ Len(fin.predictions) = 3
    /\ {fin.predictions[i].y : i \in 1..3} = {0, 40, 80}
    /\ ~C8_Orderable(fin.predictions)
    /\ fout.sortedSlots # fin.predictions
    /\ fout.sortedAgain = fout.sortedSlots

(***************************************************************************)
(* Claims on corner and edge classification (SpecGrid).                    *)
(***************************************************************************)
Gridded == fout # Null

\* ceil(n / 8): the least r with 8 * r >= n
C17_Rows(n) == CHOOSE r \in 0..n : 8 * r >= n /\ 8 * (r - 1) < n

\* C17: for every batch size N and index, is_corner is true exactly when the
\* slot's row is 0 or ceil(N/8) - 1 and its col is 0 or 7; with N = 24 slot
\* number 1 is a corner and slot number 12 is not.
C17_CornerRule ==
    Gridded =>
        /\ fout.slot.row = fin.index \div 8
        /\ fout.slot.col = fin.index % 8
        /\ fout.slot.is_corner <=>
              (/\ fout.slot.row \in {0, C17_Rows(fin.totalSlots) - 1}
               /\ fout.slot.col \in {0, 7})
        /\ (fin.totalSlots = 24 /\ fout.slot.slot_number = 1) => fout.slot.is_corner
        /\ (fin.totalSlots = 24 /\ fout.slot.slot_number = 12) => ~fout.slot.is_corner

\* slot 17 of 17 was classified: the only slot of row 2, a corner
C17_Witness ==
    /\ Gridded
    /\ fin.totalSlots = 17
    /\ fout.slot.slot_number = 17
    /\ fout.slot.row = 2 /\ fout.slot.col = 0
    /\ fout.slot.is_corner

\* C18: for every batch size N and index, is_edge is true exactly when the
\* slot is a corner or lies in row 0, row ceil(N/8) - 1, col 0 or col 7, so
\* every corner is an edge; with N = 24 slot number 1 is an edge and slot
\* number 12 is not.
C18_EdgeRule ==
    Gridded =>
        /\ fout.slot.is_edge <=>
              (\/ fout.slot.is_corner
               \/ fout.slot.row \in {0, C17_Rows(fin.totalSlots) - 1}
               \/ fout.slot.col \in {0, 7})
        /\ fout.slot.is_corner => fout.slot.is_edge
        /\ (fin.totalSlots = 24 /\ fout.slot.slot_number = 1) => fout.slot.is_edge
        /\ (fin.totalSlots = 24 /\ fout.slot.slot_number = 12) => ~fout.slot.is_edge

\* slot 9 of 24 was classified: row 1, col 0, an edge that is no corner
C18_Witness ==
    /\ Gridded
    /\ fin.totalSlots = 24
    /\ fout.slot.slot_number = 9
    /\ fout.slot.row = 1 /\ fout.slot.col = 0
    /\ fout.slot.is_edge
    /\ ~fout.slot.is_corner

(***************************************************************************)
(* Claims on vehicle detection (SpecVehicles).                             *)
(***************************************************************************)
VehicleDetected == fout # Null

\* C19: for a non-empty prediction list detectVehicleType returns one vehicle
\* detection, built from the first prediction whose confidence is the maximum
\* of the list, with the category mapClassToVehicleType gives to its class
\* (the category of the first table key in the lower-cased class, else car).
C19_BestPrediction ==
    VehicleDetected =>
        LET P == fin.predictions
            r == fout.result
        IN /\ DOMAIN r = {"vehicle_type", "confidence", "x", "y", "width",
                          "height", "original_class"}
           /\ \E k \in 1..Len(P) :
                 /\ \A j \in 1..Len(P) : P[j].confidence <= P[k].confidence
                 /\ \A j \in 1..(k - 1) : P[j].confidence < P[k].confidence
                 /\ r.confidence = P[k].confidence
                 /\ r.x = P[k].x /\ r.y = P[k].y
                 /\ r.width = P[k].width /\ r.height = P[k].height
                 /\ r.original_class = P[k].class
                 /\ r.vehicle_type = C9_Expected(P[k].class)

\* three predictions were reduced: the second and the third share the
\* maximum confidence, and the detection is built from the second
C19_Witness ==
    /\ VehicleDetected
    /\ Len(fin.predictions) = 3
    /\ fin.predictions[1].confidence < fin.predictions[2].confidence
    /\ fin.predictions[3].confidence = fin.predictions[2].confidence
    /\ fin.predictions[3].class # fin.predictions[2].class
    /\ fout.result.original_class = fin.predictions[2].class
    /\ fout.result.vehicle_type = "car"
    /\ mapClassToVehicleType(fin.predictions[3].class) = "truck"

(***************************************************************************)
(* Claims on path generation (SpecRoutes, Spec).                           *)
(***************************************************************************)
Routed == fout # Null

\* C16: generatePathsToSlot returns exactly 4 paths for a slot of row 0 or 1
\* and exactly 3 paths for any other slot, with the ids 1..count in list
\* order.
C16_PathCount ==
    Routed =>
        LET count == IF fin.slot.row \in {0, 1} THEN 4 ELSE 3
        IN /\ Len(fout.paths) = count
           /\ \A k \in 1..count : fout.paths[k].id = k

\* paths were generated to a slot of row 1 (4 paths expected)
C16_Witness ==
    /\ Routed
    /\ fin.slot.row = 1
    /\ Len(fout.paths) = 4
    /\ fout.paths[4].id = 4

\* the numbers 65 + 25*i and 85 + 25*i for the positions i = 0..3
C20_RangeStart == [k \in 1..4 |-> numberOfInt(65 + 25 * (k - 1))] @@ <<>>

C20_RangeEnd == [k \in 1..4 |-> numberOfInt(85 + 25 * (k - 1))] @@ <<>>

\* the path at 0-based position i has t_junctions 1 + i or 2 + i, intensity
\* and score unset, and a distance of 65 + 25*i at least
C20_Generated(paths) ==
    \A k \in 1..Len(paths) :
        LET i == k - 1
        IN /\ k <= 4
           /\ ~numberLess(paths[k].distance, C20_RangeStart[k])
           /\ paths[k].tJunctions \in {1 + i, 2 + i}
           /\ paths[k].vehicleIntensity = Null
           /\ paths[k].score = Null

\* every distance is in [65 + 25*i, 85 + 25*i)
C20_BelowEnd(paths) ==
    \A k \in 1..Len(paths) :
        k <= 4 /\ numberLess(paths[k].distance, C20_RangeEnd[k])

\* every distance is in [65 + 25*i, 85 + 25*i]
C20_UpToEnd(paths) ==
    \A k \in 1..Len(paths) :
        k <= 4 /\ ~numberLess(C20_RangeEnd[k], paths[k].distance)

\* no operation changes the distance or the t_junctions of a path: the path
\* list only changes when it is generated (from the empty list) and when the
\* session is reset (to the empty list)
C20_PathsKept ==
    /\ (pathsData # <<>> /\ pathsData' # <<>>)
          => (/\ Len(pathsData') = Len(pathsData)
              /\ \A k \in 1..Len(pathsData) :
                    /\ pathsData'[k].id = pathsData[k].id
                    /\ pathsData'[k].distance = pathsData[k].distance
                    /\ pathsData'[k].tJunctions = pathsData[k].tJunctions)
    /\ (pathsData # <<>> /\ pathsData' = <<>>) => currentStep' = 1

\* C20 as claimed: the paths a session holds are as generated, with a
\* distance in [65 + 25*i, 85 + 25*i) at 0-based position i, t_junctions
\* 1 + i or 2 + i, intensity and score unset, and no later operation of the
\* session changes the distance or the t_junctions of a path.
C20_Original ==
    [][/\ C20_Generated(pathsData')
       /\ C20_BelowEnd(pathsData')
       /\ C20_PathsKept]_vars

\* C20 (amended): the paths a session holds are as generated, with a
\* distance in [65 + 25*i, 85 + 25*i] at 0-based position i (the end of the
\* range included: the sum is rounded to it for an outcome of Math.random()
\* close to 1), t_junctions 1 + i or 2 + i, intensity and score unset, and no
\* later operation of the session changes the distance or the t_junctions of
\* a path.
C20_PathRanges ==
    [][/\ C20_Generated(pathsData')
       /\ C20_UpToEnd(pathsData')
       /\ C20_PathsKept]_vars

\* the optimal path was calculated over generated paths with both ends of
\* the ranges: path 1 at distance 85, the sum for the largest outcome of
\* Math.random(), with 1 junction, path 2 at distance 90 with 3 junctions
C20_Witness ==
    /\ currentStep = 5
    /\ Len(pathsData) = 4
    /\ pathsData[1].distance = numberOfInt(85) /\ pathsData[1].tJunctions = 1
    /\ pathsData[2].distance = numberOfInt(90) /\ pathsData[2].tJunctions = 3
    /\ pathsData[1].score = Null
    /\ optimalPath # Null

(***************************************************************************)
(* Claims on re-running a session (SpecRerun).                             *)
(***************************************************************************)
\* the slot lists a session without a past gets from an answer
C14_SlotsOf(response) ==
    {parkingResult(sortSlotsSpatiallly(response.predictions), response.image).slots}

\* the session holds the slot list and the vehicle detection of the
\* recorded run again, after a reset, and has allocated
C14_RunAgain ==
    /\ fout # Null
    /\ fout.reset
    /\ currentStep = 3
    /\ detectedSlots = fout.detectedSlots
    /\ detectedVehicleType = fout.detectedVehicleType
    /\ allocatedSlot # Null

\* C14: after a reset, running the same slot detection batch and the same
\* vehicle detection again gives the slot list and the allocated slot of the
\* first run: every successful slot detection leaves the slot list that its
\* batch gives a new session, whatever came before; every allocation of a
\* session that has detected its slots is made from that slot list and the
\* answer of the vehicle detection alone; and a run that has the slot list
\* and the vehicle detection of the recorded run has its allocated slot.
C14_RerunReproduces ==
    [][/\ \A p \in pending :
             (/\ p.op = "detectParkingSlots"
              /\ p.response # Waiting
              /\ p \notin pending'
              /\ p.response.ok
              /\ Len(p.response.predictions) > 0)
             => (/\ detectedSlots' \in C14_SlotsOf(p.response)
                 /\ currentStep' = 2)
       /\ \A p \in pending :
             (/\ p.op = "detectVehicleAndAllocate"
              /\ p.response # Waiting
              /\ p \notin pending'
              /\ p.response.ok
              /\ Len(p.response.predictions) > 0
              /\ currentStep = 2
              /\ \E i \in 1..Len(detectedSlots) : detectedSlots[i].status = "empty")
             => (/\ detectedVehicleType' = vehicleResultOf(p.response.predictions)
                 /\ allocatedSlot' =
                       bestSlotOf(detectedVehicleType'.vehicle_type,
                                  emptySlotsOf(detectedSlots))
                 /\ detectedSlots' = detectedSlots)
       /\ C14_RunAgain' => allocatedSlot' = fout'.allocatedSlot]_vars

\* a run was recorded, the session was reset, and the same detections were
\* run again up to the allocation
C14_Witness ==
    /\ C14_RunAgain
    /\ allocatedSlot = fout.allocatedSlot
    /\ pending = {}
    /\ ~isProcessing

(***************************************************************************)
(* Claims on the range of intensities (Spec).                              *)
(***************************************************************************)
\* C21: every intensity stored for a path, simulated or entered by hand, is
\* an integer in 0..100, and so is the intensity the optimal path was scored
\* with.
C21_IntensityRange ==
    /\ \A id \in DOMAIN pathVehicleIntensities :
          pathVehicleIntensities[id] \in 0..100
    /\ optimalPath # Null => optimalPath.vehicleIntensity \in 0..100

(***************************************************************************)
(* Claims on operations in flight (Spec).                                  *)
(***************************************************************************)
\* C22: at most one asynchronous operation (slot detection, vehicle
\* detection with allocation, intensity analysis) is in flight at any time,
\* and while one is in flight the processing flag is set, also after a reset
\* issued while it was running.
C22_OneInFlight ==
    /\ Cardinality(pending) <= 1
    /\ pending # {} => isProcessing

\* the session was reset while a vehicle detection was running and a new
\* parking image has been loaded since: the detection is still in flight and
\* the slot detection button is rendered (step 1, image present)
C22_Witness ==
    /\ currentStep = 1
    /\ parkingImage # Null
    /\ isProcessing
    /\ \E p \in pending : p.op = "detectVehicleAndAllocate"

(***************************************************************************)
(* Claims on a reset during an operation (Spec).                           *)
(***************************************************************************)
\* the handler p ends in this step; it was started at step 2 (vehicle
\* detection) or 3 (intensity analysis), where no other handler can run
\* while it is in flight, so it meets step 1 only after a reset
C23_EndsAfterReset(p) ==
    /\ p.op \in {"detectVehicleAndAllocate", "detectPathVehicleIntensities"}
    /\ p \notin pending'
    /\ currentStep = 1

\* C23: when resetSystem has run while a vehicle detection or an intensity
\* analysis was in flight, the completion of that operation does not
\* repopulate the session: vehicle detection, allocated slot, path list,
\* path intensities and current step keep their reset values.
C23_ResetSurvivesCompletion ==
    [][\A p \in pending :
          C23_EndsAfterReset(p)
          => (/\ detectedVehicleType' = Null
              /\ allocatedSlot' = Null
              /\ pathsData' = <<>>
              /\ pathVehicleIntensities' = <<>>
              /\ currentStep' = 1)]_vars

(***************************************************************************)
(* Claims on the later steps (Spec).                                       *)
(***************************************************************************)
\* C24: in every state with current step >= 3 the allocated slot is set and
\* is an element of the detected slot list with status empty, and the path
\* list holds 3 or 4 paths (so calculateOptimalPath never runs over an empty
\* list); in every state with current step 5 the optimal path's id is the id
\* of a path of the path list.
C24_LaterSteps ==
    /\ currentStep >= 3 =>
          /\ allocatedSlot # Null
          /\ \E i \in 1..Len(detectedSlots) :
                detectedSlots[i] = allocatedSlot /\ detectedSlots[i].status = "empty"
          /\ Len(pathsData) \in {3, 4}
    /\ currentStep = 5 =>
          /\ optimalPath # Null
          /\ \E k \in 1..Len(pathsData) : pathsData[k].id = optimalPath.id

(***************************************************************************)
(* Claims on the comparison view (SpecPaths).                              *)
(***************************************************************************)
Compared == fout # Null /\ "comparison" \in DOMAIN fout

\* C25: the path marked OPTIMAL in the All Paths Comparison view has the
\* lowest score shown in that view: no other path displays a strictly lower
\* score.
C25_OptimalHasLowestDisplayScore ==
    Compared =>
        \A k \in 1..Len(fout.comparison) :
            fout.comparison[k].isOptimal =>
                \A j \in 1..Len(fout.comparison) :
                    ~numberLess(fout.comparison[j].score, fout.comparison[k].score)

(***************************************************************************)
(* Claims on the empty and occupied lists (SpecSlots).                     *)
(***************************************************************************)
\* the slot numbers of the slots of the given status, in list order
C26_NumbersOf(slots, status) ==
    LET kept == SelectSeq(slots, LAMBDA slot : slot.status = status)
    IN [i \in 1..Len(kept) |-> kept[i].slot_number]

\* C26: in the result of roboflowAPI.detectParkingSlots, empty_slots is the
\* list of the slot numbers of the slots with status empty and
\* occupied_slots that of the slots with status occupied; the two lists are
\* disjoint and together cover 1..total_slots.
C26_EmptyAndOccupiedLists ==
    Normalized =>
        LET result == fout.result
            empty == {result.empty_slots[i] : i \in 1..Len(result.empty_slots)}
            occupied == {result.occupied_slots[i] : i \in 1..Len(result.occupied_slots)}
        IN /\ result.empty_slots = C26_NumbersOf(result.slots, "empty")
           /\ result.occupied_slots = C26_NumbersOf(result.slots, "occupied")
           /\ empty \cap occupied = {}
           /\ empty \cup occupied = 1..result.total_slots

(***************************************************************************)
(* Claims on the end of an operation (SpecLive).                           *)
(***************************************************************************)
\* C27: every started asynchronous operation (detectParkingSlots,
\* detectVehicleAndAllocate, detectPathVehicleIntensities) eventually ends
\* with the processing flag cleared, whatever its outcome, provided the
\* detection call and the timer complete: the session never stays in the
\* processing state.
C27_ProcessingEnds ==
    (isProcessing \/ pending # {}) ~> (~isProcessing /\ pending = {})

\* a vehicle detection has ended through the return on 'no empty slots' and
\* the processing flag is cleared
C27_Witness ==
    /\ error = ErrNoEmptySlots
    /\ detectedVehicleType # Null
    /\ allocatedSlot = Null
    /\ ~isProcessing
    /\ pending = {}

====
